---- MODULE Spec2Model ----
(***************************************************************************)
(* GestureControlPro command pipeline: three transport listeners feed one   *)
(* bounded asyncio.Queue; a single worker task drains it, applies           *)
(* prediction / smoothing / the drag state machine and awaits every         *)
(* SystemController call, which runs in the thread pool.                    *)
(*                                                                         *)
(* Floats are modelled as exact rationals: a normalized position is a      *)
(* numerator over PosDen, the smoothing factor a numerator over SmoothDen, *)
(* a timestamp a whole number of ticks.  int() is truncation toward zero.  *)
(* The smoothing blend is computed exactly; the source's binary floats    *)
(* agree with it for the factor 0.5 and, for a factor that is no dyadic    *)
(* fraction, can truncate to one pixel less where the exact blend is a     *)
(* whole number.  The floats of the performance monitor are rounded: to    *)
(* the nearest value of MantissaBits significant bits, ties to even, as    *)
(* IEEE 754 rounds to 53.                                                  *)
(***************************************************************************)
EXTENDS Integers, Sequences, FiniteSets, TLC

(* ------------------------------ bounds -------------------------------- *)

\* payloads the listeners receive in a run of the pipeline workload
MaxPayloads == 2
\* payloads the listeners receive in a run of the positional workload
MaxExecPayloads == 2
\* payloads the listeners receive beyond the queue capacity in the flood workload
FloodExtra == 2
\* an injection call can raise for at most this many calls of a run
MaxRaises == 1
\* payloads the clients send in a run of the wire workload
MaxWirePayloads == 2
\* payloads the client sends in a run of the smoothing workload
MaxSmoothPayloads == 4
\* payloads the client sends in a run with configuration updates
MaxConfigPayloads == 3
\* payloads the clients send in a run of the connection workload
MaxConnPayloads == 2
\* connections the stream listeners accept in a run of the connection workload
MaxConnections == 1
\* tasks that call record_command in a run of the monitor workload
MaxRecorders == 3
\* direct calls of the predictor in a run
MaxPredictions == 6
\* payloads the listener receives in a run of the drag workload
MaxDragPayloads == 3
\* payloads the listener receives in a run of the unknown-action workload
MaxUnknownPayloads == 3
\* payloads the clients send in a run of the token workload
MaxAuthPayloads == 2
\* payloads the clients send in the shutdown workload
MaxLifePayloads == 1
\* SIGINT/SIGTERM deliveries in the shutdown workload
MaxSignals == 2

(* ------------------------- program constants -------------------------- *)

\* asyncio.Queue(maxsize=100)
QueueMaxSize == 100
\* controller.size() of the headless controller
ScreenWidth == 1920
ScreenHeight == 1080
\* denominators of the rational encodings of normalized positions and of
\* the smoothing factor; a zoom factor is a numerator over FactorDen.  PosDen
\* makes the positions k/4 and the pixels (100, 100) of the 1920x1080 screen
\* exact: 100/1920 = 45/864, 100/1080 = 80/864.
PosDen == 864
SmoothDen == 10
FactorDen == 2
\* the metadata defaults of _execute_action
DefaultScrollAmount == 3
\* prediction_time = 0.020 s, in ticks of 10 ms
PredictionTicks == 2
\* float('inf'), the initial min_latency
InfLatency == 1000000
\* latencies and elapsed times are counted in ticks of 10 ms: ticks per second
TicksPerSecond == 100
\* get_stats reports latencies in milliseconds: seconds * 1000, per tick
MsPerTick == 10
\* the significand of the monitor's floats, in bits (53 in a Python float):
\* whole numbers below 2^MantissaBits are exact, as are the numbers of the
\* pipeline workloads
MantissaBits == 7

(* ------------------------------ helpers -------------------------------- *)

\* Python int() of the rational n/d, d > 0: truncation toward zero
Trunc(n, d) ==
    IF n >= 0 THEN n \div d ELSE -((-n) \div d)

\* the clamp left out: the value passes through
NoClamp(v, limit) ==
    v

\* round(a / b) for a >= 0, b > 0, a tie going to the even neighbour
RoundHalfEven(a, b) ==
    IF 2 * (a % b) < b THEN a \div b
    ELSE IF 2 * (a % b) > b THEN (a \div b) + 1
    ELSE IF (a \div b) % 2 = 0 THEN a \div b
    ELSE (a \div b) + 1

RECURSIVE Lowest(_, _)
\* the rational n / d, d a power of two, in lowest terms
Lowest(n, d) ==
    IF d > 1 /\ n % 2 = 0 THEN Lowest(n \div 2, d \div 2) ELSE <<n, d>>

RECURSIVE FloatRound(_, _)
\* the float nearest to the rational n / d >= 0: the significand is rounded
\* to MantissaBits bits, ties to even (IEEE 754 round-to-nearest)
FloatRound(n, d) ==
    IF n = 0 THEN <<0, 1>>
    ELSE IF n >= (2 ^ MantissaBits) * d
    THEN LET r == FloatRound(n, 2 * d) IN <<2 * r[1], r[2]>>
    ELSE IF 2 * n < (2 ^ MantissaBits) * d
    THEN LET r == FloatRound(2 * n, d) IN Lowest(r[1], 2 * r[2])
    ELSE <<RoundHalfEven(n, d), 1>>

\* float addition of two whole numbers of ticks
FloatAdd(a, b) ==
    IF a + b < 2 ^ MantissaBits THEN a + b ELSE FloatRound(a + b, 1)[1]

\* float division and multiplication of rationals <<numerator, denominator>>
FloatDiv(p, q) ==
    FloatRound(p[1] * q[2], p[2] * q[1])

FloatMul(p, q) ==
    FloatRound(p[1] * q[1], p[2] * q[2])

\* max(0, min(limit, v))
Clamp(v, limit) ==
    IF v < 0 THEN 0 ELSE IF v > limit THEN limit ELSE v

\* dict.get(key, default) on a metadata mapping
Get(md, key, default) ==
    IF key \in DOMAIN md THEN md[key] ELSE default

\* a metadata value that is a mapping (a JSON null or list is not)
IsDict(md) ==
    "not_a_dict" \notin DOMAIN md

NotADict == [not_a_dict |-> TRUE]

EmptyDict == [x \in {} |-> 0]

Transports == {"udp", "tcp", "ws"}

\* the ids of a sequence of commands or history entries
Ids(seq) ==
    [k \in DOMAIN seq |-> seq[k].id]

(* ------------------------ TrajectoryPredictor -------------------------- *)

\* TrajectoryPredictor(sequence_length=5)
SequenceLength == 5

\* a deque that, when full, turns the new entry away instead of evicting
DequeAppend_keeps_oldest(buf, e, maxlen) ==
    IF Len(buf) >= maxlen THEN buf ELSE Append(buf, e)

\* collections.deque(maxlen=n).append: the oldest entry is evicted when full
DequeAppend(buf, e, maxlen) ==
    IF Len(buf) >= maxlen THEN Append(Tail(buf), e) ELSE Append(buf, e)

RECURSIVE DtProduct(_)
\* product of the time differences of the velocity samples (common denominator)
DtProduct(vb) ==
    IF vb = <<>> THEN 1 ELSE vb[1][3] * DtProduct(Tail(vb))

RECURSIVE WeightedSum(_, _, _, _)
\* sum over the velocity buffer of weight i times the axis velocity of sample
\* i, scaled by the common denominator d: weights are 1..n, newest heaviest
WeightedSum(vb, axis, i, d) ==
    IF i > Len(vb) THEN 0
    ELSE i * vb[i][axis] * (d \div vb[i][3]) + WeightedSum(vb, axis, i + 1, d)

\* predict_next_position returning the extrapolated value as it is
ClampRational_unclamped(n, d, limit) ==
    <<n, d>>

\* the clamp of predict_next_position on the rational n/d
ClampRational(n, d, limit) ==
    IF n < 0 THEN <<0, 1>> ELSE IF n > limit * d THEN <<limit, 1>> ELSE <<n, d>>

\* the result of predict_next_position: the buffers and the returned
\* position as two rationals <<numerator, denominator>>
Predicted(pb, vb, x, y) ==
    [position_buffer |-> pb, velocity_buffer |-> vb, x |-> x, y |-> y]

\* predict_next_position from the recency-weighted average velocity:
\* predicted = current + avg_velocity * prediction_time, clamped to the screen.
\* wsum is the sum of the weights, d the common denominator of the velocities.
Extrapolate(pb, vb, cur, wsum, d) ==
    Predicted(pb, vb,
        ClampRational(cur[1] * wsum * d + PredictionTicks * WeightedSum(vb, 1, 1, d),
                      PosDen * wsum * d, ScreenWidth),
        ClampRational(cur[2] * wsum * d + PredictionTicks * WeightedSum(vb, 2, 1, d),
                      PosDen * wsum * d, ScreenHeight))

\* predict_next_position with vb the velocity buffer after the append: the
\* weights are 1..n over its n samples
ExtrapolateFrom(pb, vb, cur) ==
    Extrapolate(pb, vb, cur, (Len(vb) * (Len(vb) + 1)) \div 2, DtProduct(vb))

\* predict_next_position recording a zero velocity when it falls back
PredictFromSamples_records_fallback(pb, velocity_buffer, cur, prev, curr) ==
    IF curr[3] - prev[3] <= 0
    THEN Predicted(pb, DequeAppend(velocity_buffer, <<0, 0, 1>>, SequenceLength - 1),
                   <<cur[1], PosDen>>, <<cur[2], PosDen>>)
    ELSE ExtrapolateFrom(pb,
             DequeAppend(velocity_buffer,
                         <<curr[1] - prev[1], curr[2] - prev[2], curr[3] - prev[3]>>,
                         SequenceLength - 1),
             cur)

\* predict_next_position once the sample is appended: prev and curr are the
\* two newest samples
PredictFromSamples(pb, velocity_buffer, cur, prev, curr) ==
    IF curr[3] - prev[3] <= 0
    THEN Predicted(pb, velocity_buffer, <<cur[1], PosDen>>, <<cur[2], PosDen>>)
    ELSE ExtrapolateFrom(pb,
             DequeAppend(velocity_buffer,
                         <<curr[1] - prev[1], curr[2] - prev[2], curr[3] - prev[3]>>,
                         SequenceLength - 1),
             cur)

\* predict_next_position with pb the position buffer after the append
PredictWithBuffer(pb, velocity_buffer, cur) ==
    IF Len(pb) < 2
    THEN Predicted(pb, velocity_buffer, <<cur[1], PosDen>>, <<cur[2], PosDen>>)
    ELSE PredictFromSamples(pb, velocity_buffer, cur, pb[Len(pb) - 1], pb[Len(pb)])

\* TrajectoryPredictor.predict_next_position: cur is the pair of numerators
\* (over PosDen) of the current position, ts the timestamp in ticks
predict_next_position(position_buffer, velocity_buffer, cur, ts) ==
    PredictWithBuffer(DequeAppend(position_buffer, <<cur[1], cur[2], ts>>, SequenceLength),
                      velocity_buffer, cur)

(* --------------------------- GestureExecutor --------------------------- *)

\* the worker-owned state a command's synchronous part reads and writes
ExecState(drag, last, pb, vb) ==
    [is_dragging |-> drag, last_position |-> last,
     position_buffer |-> pb, velocity_buffer |-> vb]

\* one SystemController call: its name, the coordinate it is given (<<>> when
\* it takes none), a string argument and an integer argument
Call(name, pos, arg, amount) ==
    [name |-> name, pos |-> pos, arg |-> arg, amount |-> amount]

\* the step of translate that is no injection call: asyncio.sleep(0.1)
SleepStep == Call("sleep", <<>>, "", 0)

\* the outcome of the synchronous part of a command: the new worker state,
\* whether an exception was raised, and the calls still to be awaited in order
Outcome(st, raised, plan) ==
    [st |-> st, raised |-> raised, plan |-> plan]

\* _smooth_position rounding to the nearest integer instead of truncating
SmoothAxis_rounding(target, last, s) ==
    Trunc(2 * ((SmoothDen - s) * target + s * last) + SmoothDen, 2 * SmoothDen)

\* _smooth_position rounding up instead of truncating
SmoothAxis_ceiling(target, last, s) ==
    Trunc((SmoothDen - s) * target + s * last + SmoothDen - 1, SmoothDen)

\* GestureExecutor._smooth_position on one axis
SmoothAxis(target, last, s) ==
    Trunc((SmoothDen - s) * target + s * last, SmoothDen)

\* GestureExecutor._smooth_position: returns the smoothed pair, which is also
\* the new last_position
smooth_position(x, y, last, s) ==
    <<SmoothAxis(x, last[1], s), SmoothAxis(y, last[2], s)>>

\* GestureExecutor._predict_next_position on the predictor's result r: a
\* non-empty tuple, so it is always taken, truncated and clamped
ClampPredicted(r) ==
    [position_buffer |-> r.position_buffer, velocity_buffer |-> r.velocity_buffer,
     pos |-> <<Clamp(Trunc(r.x[1], r.x[2]), ScreenWidth),
               Clamp(Trunc(r.y[1], r.y[2]), ScreenHeight)>>]

\* GestureExecutor._predict_next_position: the predictor is given the
\* unclamped position in pixels and the command's timestamp
executor_predict(cmd, st) ==
    ClampPredicted(
        predict_next_position(st.position_buffer, st.velocity_buffer,
            <<cmd.position[1] * ScreenWidth, cmd.position[2] * ScreenHeight>>,
            cmd.timestamp))

\* the drag_start branch: nothing while dragging; else the flag is set, then
\* the button is read from the metadata and pressed
drag_start_action(md, pos, st) ==
    IF st.is_dragging THEN Outcome(st, FALSE, <<>>)
    ELSE IF ~IsDict(md) THEN Outcome([st EXCEPT !.is_dragging = TRUE], TRUE, <<>>)
    ELSE Outcome([st EXCEPT !.is_dragging = TRUE], FALSE,
                 <<Call("mouse_down", pos, Get(md, "button", "left"), 0)>>)

\* the drag_end branch without its is_dragging test
drag_end_unguarded(md, pos, st) ==
    Outcome([st EXCEPT !.is_dragging = FALSE], FALSE,
            <<Call("mouse_up", pos, Get(md, "button", "left"), 0)>>)

\* the drag_end branch: nothing while idle; else the flag is cleared, then
\* the button is read from the metadata and released
drag_end_action(md, pos, st) ==
    IF ~st.is_dragging THEN Outcome(st, FALSE, <<>>)
    ELSE IF ~IsDict(md) THEN Outcome([st EXCEPT !.is_dragging = FALSE], TRUE, <<>>)
    ELSE Outcome([st EXCEPT !.is_dragging = FALSE], FALSE,
                 <<Call("mouse_up", pos, Get(md, "button", "left"), 0)>>)

\* the scroll branch treating every direction but "up" as horizontal
scroll_action_up_only(direction, amount, pos, st) ==
    IF direction = "up"
    THEN Outcome(st, FALSE, <<Call("scroll", pos, "", amount)>>)
    ELSE Outcome(st, FALSE, <<Call("hscroll", pos, "",
             IF direction = "right" THEN amount ELSE -amount)>>)

\* the scroll branch of _execute_action
scroll_action(direction, amount, pos, st) ==
    IF direction \in {"up", "down"}
    THEN Outcome(st, FALSE, <<Call("scroll", pos, "",
             IF direction = "up" THEN amount ELSE -amount)>>)
    ELSE Outcome(st, FALSE, <<Call("hscroll", pos, "",
             IF direction = "right" THEN amount ELSE -amount)>>)

\* the zoom branch releasing ctrl before it scrolls
zoom_action_releases_first(factor, pos, st) ==
    Outcome(st, FALSE, <<Call("key_down", <<>>, "ctrl", 0),
                         Call("key_up", <<>>, "ctrl", 0),
                         Call("scroll", pos, "", Trunc((factor - FactorDen) * 5, FactorDen))>>)

\* the zoom branch: ctrl down, scroll by int((factor - 1.0) * 5), ctrl up
zoom_action(factor, pos, st) ==
    Outcome(st, FALSE, <<Call("key_down", <<>>, "ctrl", 0),
                         Call("scroll", pos, "", Trunc((factor - FactorDen) * 5, FactorDen)),
                         Call("key_up", <<>>, "ctrl", 0)>>)

\* the translate branch reading the clipboard without waiting for the copy
translate_action_no_delay(st) ==
    Outcome(st, FALSE, <<Call("copy_selection_to_clipboard", <<>>, "", 0),
                         Call("read_clipboard", <<>>, "", 0),
                         Call("translate", <<>>, "clipboard_text", 0),
                         Call("copy_to_clipboard", <<>>, "translated_text", 0),
                         Call("paste_from_clipboard", <<>>, "", 0)>>)

\* the translate branch: copy the selection, sleep, read the clipboard and,
\* if it holds text, translate it, put the result on the clipboard and paste
translate_action(st) ==
    Outcome(st, FALSE, <<Call("copy_selection_to_clipboard", <<>>, "", 0),
                         SleepStep,
                         Call("read_clipboard", <<>>, "", 0),
                         Call("translate", <<>>, "clipboard_text", 0),
                         Call("copy_to_clipboard", <<>>, "translated_text", 0),
                         Call("paste_from_clipboard", <<>>, "", 0)>>)

\* an action that matches no branch raising an error
unknown_action_raises(st) ==
    Outcome(st, TRUE, <<>>)

\* the end of the elif chain of _execute_action: an action that matches no
\* branch does nothing
unknown_action(st) ==
    Outcome(st, FALSE, <<>>)

\* the branch of _execute_action for every action but move and move_relative,
\* entered with the smoothed coordinate (x, y) and the state st after smoothing.
\* metadata.get raises AttributeError on a metadata value that is no mapping.
dispatch_action(action, md, x, y, st) ==
    LET bad == ~IsDict(md)
        pos == <<x, y>>
    IN  CASE action = "click" ->
               IF bad THEN Outcome(st, TRUE, <<>>)
               ELSE Outcome(st, FALSE, <<Call("click", pos, Get(md, "button", "left"), 0)>>)
          [] action = "double_click" ->
               IF bad THEN Outcome(st, TRUE, <<>>)
               ELSE Outcome(st, FALSE, <<Call("double_click", pos, Get(md, "button", "left"), 0)>>)
          [] action = "drag_start" -> drag_start_action(md, pos, st)
          [] action = "drag_end" -> drag_end_action(md, pos, st)
          [] action = "scroll" ->
               IF bad THEN Outcome(st, TRUE, <<>>)
               ELSE scroll_action(Get(md, "direction", "up"),
                                  Get(md, "amount", DefaultScrollAmount), pos, st)
          [] action = "zoom" ->
               IF bad THEN Outcome(st, TRUE, <<>>)
               ELSE zoom_action(Get(md, "factor", FactorDen), pos, st)
          [] action = "key_press" ->
               IF bad THEN Outcome(st, TRUE, <<>>)
               ELSE Outcome(st, FALSE, <<Call("press", <<>>, Get(md, "key", "space"), 0)>>)
          [] action = "key_combo" ->
               IF bad THEN Outcome(st, TRUE, <<>>)
               ELSE Outcome(st, FALSE, <<Call("hotkey", <<>>, Get(md, "keys", ""), 0)>>)
          [] action = "type_text" ->
               IF bad THEN Outcome(st, TRUE, <<>>)
               ELSE Outcome(st, FALSE, <<Call("type_string", <<>>, Get(md, "text", ""), 0)>>)
          [] action = "wave" ->
               Outcome(st, FALSE, <<Call("hotkey", <<>>, "alt+tab", 0)>>)
          [] action = "copy" ->
               Outcome(st, FALSE, <<Call("copy_selection_to_clipboard", <<>>, "", 0)>>)
          [] action = "paste" ->
               IF bad THEN Outcome(st, TRUE, <<>>)
               ELSE LET text_to_paste == Get(md, "text", "")
                    IN  IF text_to_paste # ""
                        THEN Outcome(st, FALSE,
                                 <<Call("copy_to_clipboard", <<>>, text_to_paste, 0),
                                   Call("paste_from_clipboard", <<>>, "", 0)>>)
                        ELSE Outcome(st, FALSE, <<>>)
          [] action = "translate" ->
               translate_action(st)
          [] action = "volume_control" ->
               IF bad THEN Outcome(st, TRUE, <<>>)
               ELSE IF Get(md, "direction", "up") = "up"
                    THEN Outcome(st, FALSE, <<Call("volume_up", <<>>, "", 0)>>)
                    ELSE Outcome(st, FALSE, <<Call("volume_down", <<>>, "", 0)>>)
          [] OTHER -> unknown_action(st)

\* the move branch issuing its call twice
move_action_repeats(st, pr, s) ==
    Outcome(ExecState(st.is_dragging, st.last_position,
                      pr.position_buffer, pr.velocity_buffer),
            FALSE, <<Call("move_to", pr.pos, "", 0), Call("move_to", pr.pos, "", 0)>>)

\* the move branch of _execute_action after prediction: pr holds the
\* predictor's buffers and the position to smooth
move_action(st, pr, s) ==
    IF s > 0
    THEN Outcome(ExecState(st.is_dragging,
                           smooth_position(pr.pos[1], pr.pos[2], st.last_position, s),
                           pr.position_buffer, pr.velocity_buffer),
                 FALSE,
                 <<Call("move_to",
                        smooth_position(pr.pos[1], pr.pos[2], st.last_position, s),
                        "", 0)>>)
    ELSE Outcome(ExecState(st.is_dragging, st.last_position,
                           pr.position_buffer, pr.velocity_buffer),
                 FALSE, <<Call("move_to", pr.pos, "", 0)>>)

\* the else branch of _execute_action feeding the predictor as a move does
other_action_predicts(cmd, x, y, s, st) ==
    dispatch_action(cmd.action, cmd.metadata, x, y,
        [st EXCEPT !.position_buffer = executor_predict(cmd, st).position_buffer,
                   !.velocity_buffer = executor_predict(cmd, st).velocity_buffer])

\* the else branch of _execute_action: smoothing, then the action's calls
other_action(cmd, x, y, s, st) ==
    IF s > 0
    THEN dispatch_action(cmd.action, cmd.metadata,
             SmoothAxis(x, st.last_position[1], s),
             SmoothAxis(y, st.last_position[2], s),
             [st EXCEPT !.last_position = smooth_position(x, y, st.last_position, s)])
    ELSE dispatch_action(cmd.action, cmd.metadata, x, y, st)

\* the move_relative branch keeping the deltas as the last position
move_relative_action_tracks(md, st) ==
    Outcome([st EXCEPT !.last_position = <<Get(md, "dx", 0), Get(md, "dy", 0)>>],
            FALSE,
            <<Call("move_relative", <<>>, "", 0) @@
              [dx |-> Get(md, "dx", 0), dy |-> Get(md, "dy", 0)]>>)

\* the move_relative branch of _execute_action: one call with the deltas of
\* the metadata, 0 where none is given; (x, y) is not used
move_relative_action(md, st) ==
    Outcome(st, FALSE,
            <<Call("move_relative", <<>>, "", 0) @@
              [dx |-> Get(md, "dx", 0), dy |-> Get(md, "dy", 0)]>>)

\* GestureExecutor._execute_action up to its first await: (x, y) is the
\* denormalized clamped coordinate, s the configured smoothing numerator
execute_action(cmd, x, y, s, prediction, st) ==
    IF cmd.action = "move_relative" THEN
        IF ~IsDict(cmd.metadata) THEN Outcome(st, TRUE, <<>>)
        ELSE move_relative_action(cmd.metadata, st)
    ELSE IF cmd.action = "move" THEN
        move_action(st,
            IF prediction THEN executor_predict(cmd, st)
            ELSE [position_buffer |-> st.position_buffer,
                  velocity_buffer |-> st.velocity_buffer, pos |-> <<x, y>>],
            s)
    ELSE other_action(cmd, x, y, s, st)

\* GestureExecutor._execute_command_internal up to its first await:
\* position[0] * screen_width raises on a position that is no pair of numbers
execute_command_internal(cmd, s, prediction, st) ==
    IF Len(cmd.position) < 2 THEN Outcome(st, TRUE, <<>>)
    ELSE execute_action(cmd,
             Clamp(Trunc(cmd.position[1] * ScreenWidth, PosDen), ScreenWidth),
             Clamp(Trunc(cmd.position[2] * ScreenHeight, PosDen), ScreenHeight),
             s, prediction, st)

(* ----------------------- messages and decoding ------------------------- *)

\* a text that is no JSON document
Garbage == [garbage |-> TRUE]

\* bytes that are no UTF-8 text
Undecodable == [undecodable |-> TRUE]

\* bytes.decode inside json.loads: UnicodeDecodeError on bytes that are no text
IsText(raw_data) ==
    \A i \in DOMAIN raw_data : "undecodable" \notin DOMAIN raw_data[i].of

\* JSON null, as the id echoed for a message without one
Null == 0

\* json.dumps(v).encode() as the client numbering its payloads sends payload
\* n: the bytes of the text, in two runs so that a stream can be cut inside it
Encode(n, v) ==
    <<[payload |-> n, part |-> "head", of |-> v],
      [payload |-> n, part |-> "tail", of |-> v]>>

\* the bytes are the whole text of exactly one payload
IsWhole(raw_data) ==
    /\ Len(raw_data) = 2
    /\ raw_data[1].part = "head"
    /\ raw_data[2].part = "tail"
    /\ raw_data[1].payload = raw_data[2].payload

\* json.loads: the value of the text, or JSONDecodeError on what is not one
\* whole JSON document (no document, part of one, or one followed by more)
json_loads(raw_data) ==
    IF IsWhole(raw_data) /\ "garbage" \notin DOMAIN raw_data[1].of
    THEN [ok |-> TRUE, value |-> raw_data[1].of]
    ELSE [ok |-> FALSE]

\* from_json reading the id with data.get('id'): a missing id becomes None
from_json_optional_id(data) ==
    IF "payload" \notin DOMAIN data THEN <<>>
    ELSE IF "action" \notin DOMAIN data.payload THEN <<>>
    ELSE <<[id |-> Get(data, "id", Null),
            action |-> data.payload.action,
            position |-> Get(data.payload, "position", <<0, 0>>),
            timestamp |-> Get(data, "timestamp", 0),
            metadata |-> Get(data.payload, "metadata", EmptyDict)]>>

\* GestureCommand.from_json: <<command>>, or <<>> for None (KeyError/TypeError
\* on a missing payload, id or action); position and metadata have defaults
from_json(data) ==
    IF "payload" \notin DOMAIN data \/ "id" \notin DOMAIN data THEN <<>>
    ELSE IF "action" \notin DOMAIN data.payload THEN <<>>
    ELSE <<[id |-> data.id,
            action |-> data.payload.action,
            position |-> Get(data.payload, "position", <<0, 0>>),
            timestamp |-> Get(data, "timestamp", 0),
            metadata |-> Get(data.payload, "metadata", EmptyDict)]>>

\* the replies _process_message sends on a WebSocket
reply_invalid_json ==
    [error |-> "Invalid JSON format"]

reply_internal_error ==
    [error |-> "Internal server error"]

\* the reply to an invalid command without the id echoed
reply_invalid_command_no_id(data) ==
    [error |-> "Invalid command format"]

reply_invalid_command(data) ==
    [error |-> "Invalid command format", id |-> Get(data, "id", Null)]

\* what _process_message makes of the bytes received: the command to submit
\* (<<>> when there is none), the reply to send when there is a WebSocket,
\* and whether except Exception caught an error
Handled(cmd, reply, error) ==
    [command |-> cmd, reply |-> reply, error |-> error]

\* GestureServer._process_message up to submit_command: json.loads, the
\* type test (data.get raises on a JSON value that is no object), from_json
handle_message(raw_data) ==
    LET loaded == json_loads(raw_data)
    IN  IF ~IsText(raw_data) THEN Handled(<<>>, <<reply_internal_error>>, TRUE)
        ELSE IF ~loaded.ok THEN Handled(<<>>, <<reply_invalid_json>>, FALSE)
        ELSE IF ~IsDict(loaded.value)
        THEN Handled(<<>>, <<reply_internal_error>>, TRUE)
        ELSE IF Get(loaded.value, "type", "") # "gesture_command"
        THEN Handled(<<>>, <<>>, FALSE)
        ELSE IF from_json(loaded.value) = <<>>
        THEN Handled(<<>>, <<reply_invalid_command(loaded.value)>>, FALSE)
        ELSE Handled(from_json(loaded.value), <<>>, FALSE)

\* the normalized position (a/4, b/4) as a pair of numerators over PosDen
Quarters(a, b) ==
    <<a * (PosDen \div 4), b * (PosDen \div 4)>>

\* the normalized position of the pixel (x, y): (x/1920, y/1080)
PixelPosition(x, y) ==
    <<(x * PosDen) \div ScreenWidth, (y * PosDen) \div ScreenHeight>>

\* the wire envelope of one gesture command
Envelope(id, action, position, timestamp, metadata) ==
    [type |-> "gesture_command", id |-> id, timestamp |-> timestamp,
     payload |-> [action |-> action, position |-> position, metadata |-> metadata]]

\* the payloads of the pipeline workload, as a client numbering its messages
\* with tag id sends them: a command of one call, one of three calls, one
\* with a sleep and a clipboard read, and one whose position is no pair
PipelineMessages(id) ==
    { Envelope(id, "move", Quarters(2, 2), 10, EmptyDict),
      Envelope(id, "zoom", Quarters(2, 2), 10, [factor |-> 3]),
      Envelope(id, "translate", Quarters(2, 2), 10, EmptyDict),
      Envelope(id, "move", <<>>, 10, EmptyDict) }

\* the payloads of the positional workload: every positional action, with
\* positions inside and outside the unit square and timestamps in and out of order
PositionalMessages(id) ==
    { Envelope(id, "move", Quarters(2, 2), 10, EmptyDict),
      Envelope(id, "move", Quarters(5, -1), 12, EmptyDict),
      Envelope(id, "move", Quarters(-3, 9), 11, EmptyDict),
      Envelope(id, "click", Quarters(-1, 5), 10, [button |-> "right"]),
      Envelope(id, "double_click", Quarters(4, 0), 10, EmptyDict),
      Envelope(id, "drag_start", Quarters(1, 3), 10, EmptyDict),
      Envelope(id, "drag_end", Quarters(7, -2), 10, [button |-> "right"]),
      Envelope(id, "scroll", Quarters(6, 6), 10, [direction |-> "down", amount |-> 5]),
      Envelope(id, "scroll", Quarters(-2, 1), 10, [direction |-> "left", amount |-> 10]),
      Envelope(id, "scroll", Quarters(1, 1), 10, EmptyDict),
      Envelope(id, "scroll", Quarters(3, 1), 10, [direction |-> "right", amount |-> 4]),
      Envelope(id, "scroll", Quarters(1, 2), 10, [direction |-> "diagonal"]),
      Envelope(id, "zoom", Quarters(5, 5), 10, [factor |-> 3]),
      Envelope(id, "move_relative", Quarters(2, 2), 10, [dx |-> 2500, dy |-> -40]),
      Envelope(id, "move_relative", Quarters(5, -1), 10, EmptyDict) }

\* the payloads of the wire workload: a valid command, a valid command that
\* leaves every optional field out, a text that is no JSON, a JSON list, a
\* message of another type and one of no type, and gesture commands without
\* payload, without id, without action and with a payload that is no object
WireMessages(id) ==
    { Envelope(id, "move", Quarters(2, 2), 10, EmptyDict),
      Envelope(id, "move", Quarters(5, -1), 10, EmptyDict),
      [type |-> "gesture_command", id |-> id, payload |-> [action |-> "click"]],
      Garbage,
      NotADict,
      [type |-> "heartbeat", id |-> id],
      [id |-> id, payload |-> [action |-> "move"]],
      [type |-> "gesture_command", id |-> id],
      [type |-> "gesture_command", payload |-> [action |-> "move"]],
      [type |-> "gesture_command", id |-> id, payload |-> [position |-> Quarters(2, 2)]],
      [type |-> "gesture_command", id |-> id, payload |-> NotADict] }

\* the payloads of the smoothing workload: a move and a click at the pixel
\* (100, 100), and moves at two positions a few pixels from the origin
SmoothMessages(id) ==
    { Envelope(id, "move", PixelPosition(100, 100), 10, EmptyDict),
      Envelope(id, "click", PixelPosition(100, 100), 10, EmptyDict),
      Envelope(id, "move", <<3, 3>>, 10, EmptyDict),
      Envelope(id, "move", <<1, 1>>, 10, EmptyDict) }

\* the payloads of the connection workload: a valid command, text that is
\* no JSON, bytes that are no text, JSON that is no object, and a command
\* without id
ConnMessages(id) ==
    { Envelope(id, "click", Quarters(2, 2), 10, EmptyDict),
      Garbage,
      Undecodable,
      NotADict,
      [type |-> "gesture_command", payload |-> [action |-> "click"]] }

\* the payloads of the drag workload: a drag_start with the right button,
\* one whose metadata is a JSON list, a drag_end that names no button, and
\* a click
DragMessages(id) ==
    { Envelope(id, "drag_start", Quarters(1, 3), 10, [button |-> "right"]),
      Envelope(id, "drag_start", Quarters(2, 2), 10, NotADict),
      Envelope(id, "drag_end", Quarters(3, 1), 10, EmptyDict),
      Envelope(id, "click", Quarters(2, 2), 10, EmptyDict) }

\* the payloads of the unknown-action workload: two commands whose action
\* is no GestureAction value, a move and a drag_start
UnknownMessages(id) ==
    { Envelope(id, "MOVE", Quarters(2, 2), 10, EmptyDict),
      Envelope(id, "drag", Quarters(1, 3), 11, [button |-> "right"]),
      Envelope(id, "move", Quarters(3, 1), 12, EmptyDict),
      Envelope(id, "drag_start", Quarters(1, 1), 10, EmptyDict) }

\* the payloads of the token workload: a valid command and a text that is
\* no JSON
AuthMessages(id) ==
    { Envelope(id, "click", Quarters(2, 2), 10, EmptyDict),
      Garbage }

\* the payload of the flood workload: one move command, sent over and over
FloodMessages(id) ==
    { Envelope(id, "move", Quarters(2, 2), 10, EmptyDict) }

(* ------------------------------- state --------------------------------- *)

VARIABLES
    command_queue,      \* GestureExecutor.command_queue, oldest first
    unfinished_tasks,   \* asyncio.Queue's count behind join()/task_done()
    worker_pc,          \* where _command_worker is: get, await, sleep, finally, cancelled
    command,            \* the command the worker holds
    pending,            \* the steps of _execute_action still to be issued
    outcome,            \* how the held command is ending: ok, error, cancelled
    in_flight,          \* the calls running in the thread pool
    is_dragging,        \* GestureExecutor.is_dragging
    last_position,      \* GestureExecutor.last_position
    position_buffer,    \* TrajectoryPredictor.position_buffer
    velocity_buffer,    \* TrajectoryPredictor.velocity_buffer
    gesture_smoothing,  \* config.gesture_smoothing, numerator over SmoothDen
    enable_prediction,  \* config.enable_prediction
    commands_processed, \* PerformanceMonitor counters
    total_latency,
    max_latency,
    min_latency,
    running,            \* GestureServer.running
    cancel_requested,   \* worker_task.cancel() was called
    suspended,          \* the transports whose handler is suspended in submit_command
    raises,             \* injection calls that raised so far
    arrivals,           \* payloads the clients sent so far; the next payload's tag
    ws_replies,         \* the replies sent on the WebSocket connection, in order
    tcp_stream,         \* the bytes of the TCP connection not yet read
    open_conns,         \* the stream connections whose handler task is running
    accepted_conns,     \* connections the stream listeners accepted since start
    lock_locked,        \* PerformanceMonitor.lock is held
    recorders,          \* the tasks calling record_command: where each is, its latency
    reader_pc,          \* where the task calling get_stats is: idle, holding
    stats,              \* what get_stats returned last (<<>> before the first return)
    predicted,          \* history: the direct calls of predict_next_position, each with its result
    main_pc,            \* where main() is: start, returned, raised, stop, done
    logger_pc,          \* where _performance_logger is: sleep, done
    starting,           \* the listener and dashboard start tasks gather still awaits
    stop_tasks,         \* the runs of stop(): who invoked each and where it is
    accepted,           \* history: the ids of the commands put on the queue, in order
    sources,            \* history: the transports a command was accepted from
    process_errors,     \* history: exceptions caught by _process_message
    dropped,            \* history: the ids of the commands dropped on a full queue
    calls,              \* history: the injection calls started, in order
    finished            \* history: one entry per task_done()

vars ==
    <<command_queue, unfinished_tasks, worker_pc, command, pending, outcome,
      in_flight, is_dragging, last_position, position_buffer, velocity_buffer,
      gesture_smoothing, enable_prediction, commands_processed, total_latency,
      max_latency, min_latency, running, cancel_requested, suspended, raises,
      arrivals, ws_replies, tcp_stream, open_conns, accepted_conns, lock_locked, recorders, reader_pc, stats,
      predicted, main_pc, logger_pc, starting, stop_tasks,
      accepted, sources, process_errors, dropped, calls, finished>>

exec_vars == <<is_dragging, last_position, position_buffer, velocity_buffer>>
monitor_vars == <<commands_processed, total_latency, max_latency, min_latency>>
config_vars == <<gesture_smoothing, enable_prediction>>
worker_vars == <<worker_pc, command, pending, outcome>>
history_vars == <<accepted, sources, process_errors, dropped, calls, finished>>
wire_vars == <<ws_replies, tcp_stream>>
conn_vars == <<open_conns, accepted_conns>>
life_vars == <<main_pc, logger_pc, starting, stop_tasks>>
task_vars == <<lock_locked, recorders, reader_pc, stats, predicted, life_vars>>

NoCommand == [id |-> 0]

\* a task calling record_command(latency): before the call, holding the
\* lock, or returned
Recorder(pc, latency) == [pc |-> pc, latency |-> latency]

\* the handler task of the n-th connection accepted on a stream transport
Conn(t, n) == [transport |-> t, n |-> n]

\* the connections of the clients that are connected when a run starts: one
\* on the TCP port and one on the WebSocket port
FirstConns == {Conn("tcp", 0), Conn("ws", 0)}

\* the state after GestureServer.__init__ with the given configuration, once
\* start() has set running and awaits gather: main() is in `await
\* server.start()`, the logger in its first sleep, and the given start tasks
\* have not bound their sockets yet
InitServer(smoothings, predictions, start_tasks) ==
    /\ command_queue = <<>>
    /\ unfinished_tasks = 0
    /\ worker_pc = "get"
    /\ command = NoCommand
    /\ pending = <<>>
    /\ outcome = "ok"
    /\ in_flight = <<>>
    /\ is_dragging = FALSE
    /\ last_position = <<0, 0>>
    /\ position_buffer = <<>>
    /\ velocity_buffer = <<>>
    /\ gesture_smoothing \in smoothings
    /\ enable_prediction \in predictions
    /\ commands_processed = 0
    /\ total_latency = 0
    /\ max_latency = 0
    /\ min_latency = InfLatency
    /\ running = TRUE
    /\ cancel_requested = FALSE
    /\ suspended = {}
    /\ raises = 0
    /\ arrivals = 0
    /\ ws_replies = <<>>
    /\ tcp_stream = <<>>
    /\ open_conns = {c \in FirstConns : c.transport \notin start_tasks}
    /\ accepted_conns = 0
    /\ lock_locked = FALSE
    /\ recorders = [i \in 1..MaxRecorders |-> Recorder("start", 0)]
    /\ reader_pc = "idle"
    /\ stats = <<>>
    /\ predicted = <<>>
    /\ main_pc = "start"
    /\ logger_pc = "sleep"
    /\ starting = start_tasks
    /\ stop_tasks = <<>>
    /\ accepted = <<>>
    /\ sources = {}
    /\ process_errors = 0
    /\ dropped = <<>>
    /\ calls = <<>>
    /\ finished = <<>>

\* the same once every listener and the dashboard have started
InitWith(smoothings, predictions) ==
    InitServer(smoothings, predictions, {})

(* ------------------------ queue and listeners -------------------------- *)

\* what a submit does: the new queue, whether the command was put on it,
\* whether the caller is left suspended, whether an exception reaches it
SubmitResult(queue, put, suspends, raises_error) ==
    [queue |-> queue, put |-> put, suspends |-> suspends, raises |-> raises_error]

\* submit_command with the full test off by one
submit_command_off_by_one(queue, cmd) ==
    IF Len(queue) > QueueMaxSize
    THEN SubmitResult(queue, FALSE, FALSE, FALSE)
    ELSE SubmitResult(Append(queue, cmd), TRUE, FALSE, FALSE)

\* submit_command making room by evicting the oldest queued command
submit_command_evict_oldest(queue, cmd) ==
    IF Len(queue) >= QueueMaxSize
    THEN SubmitResult(Append(Tail(queue), cmd), TRUE, FALSE, FALSE)
    ELSE SubmitResult(Append(queue, cmd), TRUE, FALSE, FALSE)

\* submit_command with await queue.put(): the caller waits for room
submit_command_blocking(queue, cmd) ==
    IF Len(queue) >= QueueMaxSize
    THEN SubmitResult(queue, FALSE, TRUE, FALSE)
    ELSE SubmitResult(Append(queue, cmd), TRUE, FALSE, FALSE)

\* GestureExecutor.submit_command: put_nowait, the command dropped on QueueFull
submit_command(queue, cmd) ==
    IF Len(queue) >= QueueMaxSize
    THEN SubmitResult(queue, FALSE, FALSE, FALSE)
    ELSE SubmitResult(Append(queue, cmd), TRUE, FALSE, FALSE)

\* _process_message once submit_command has returned r for the command cmd
process_submitted(t, cmd, r) ==
    /\ command_queue' = r.queue
    /\ unfinished_tasks' = IF r.put THEN unfinished_tasks + 1 ELSE unfinished_tasks
    /\ suspended' = IF r.suspends THEN suspended \cup {t} ELSE suspended
    /\ accepted' = IF r.put THEN Append(accepted, cmd.id) ELSE accepted
    /\ sources' = IF r.put THEN sources \cup {t} ELSE sources
    /\ dropped' = IF r.put \/ r.suspends THEN dropped ELSE Append(dropped, cmd.id)
    /\ process_errors' = IF r.raises THEN process_errors + 1 ELSE process_errors
    /\ ws_replies' = IF t = "ws" /\ r.raises
                     THEN Append(ws_replies, reply_internal_error)
                     ELSE ws_replies

\* _process_message once the bytes are decoded and validated into h
process_handled(t, h) ==
    IF h.command = <<>>
    THEN /\ UNCHANGED <<command_queue, unfinished_tasks, suspended, accepted,
                        dropped, sources>>
         /\ process_errors' = IF h.error THEN process_errors + 1 ELSE process_errors
         /\ ws_replies' = IF t = "ws" THEN ws_replies \o h.reply ELSE ws_replies
    ELSE \E r \in {submit_command(command_queue, h.command[1])} :
           process_submitted(t, h.command[1], r)

\* GestureServer._process_message on the bytes raw_data received on transport
\* t: decode, validate, build the command and hand it to the queue; errors
\* are reported on a WebSocket, the one transport with a reply channel
process_message(t, raw_data) ==
    \E h \in {handle_message(raw_data)} : process_handled(t, h)

\* what every listener leaves alone
ListenerFrame ==
    UNCHANGED <<worker_vars, in_flight, exec_vars, config_vars, monitor_vars,
                running, cancel_requested, raises, calls, finished, task_vars>>

\* UDPProtocol.datagram_received: one task per datagram runs _process_message
\* on the datagram, which holds the payload a client sent whole
udp_datagram_received(msg) ==
    /\ running
    /\ arrivals' = arrivals + 1
    /\ process_message("udp", Encode(arrivals + 1, msg))
    /\ tcp_stream' = tcp_stream
    /\ UNCHANGED conn_vars
    /\ ListenerFrame

\* a client writes a payload to its TCP connection: the bytes join the stream
tcp_client_send(msg) ==
    /\ arrivals' = arrivals + 1
    /\ tcp_stream' = tcp_stream \o Encode(arrivals + 1, msg)
    /\ UNCHANGED <<command_queue, unfinished_tasks, suspended, ws_replies, accepted,
                   sources, process_errors, dropped, conn_vars>>
    /\ ListenerFrame

\* the TCP handler's loop body: data = await reader.read(buffer_size) returns
\* the first n runs of bytes of the stream, wherever the payloads begin and
\* end, then _process_message on the data.  An accepted connection outlives
\* tcp_server.close().
tcp_handler_read_stream(n) ==
    /\ "tcp" \notin suspended
    /\ n \in 1..Len(tcp_stream)
    /\ tcp_stream' = SubSeq(tcp_stream, n + 1, Len(tcp_stream))
    /\ process_message("tcp", SubSeq(tcp_stream, 1, n))
    /\ arrivals' = arrivals
    /\ UNCHANGED conn_vars
    /\ ListenerFrame

\* the TCP handler's loop body when the client's payload arrives alone in the
\* read: a send and the read that returns exactly its bytes
tcp_handler_read(msg) ==
    /\ "tcp" \notin suspended
    /\ tcp_stream = <<>>
    /\ arrivals' = arrivals + 1
    /\ process_message("tcp", Encode(arrivals + 1, msg))
    /\ tcp_stream' = tcp_stream
    /\ UNCHANGED conn_vars
    /\ ListenerFrame

\* the WebSocket handler's loop body: _process_message on the next message,
\* a frame that holds the payload a client sent whole
ws_handler_message(msg) ==
    /\ running
    /\ "ws" \notin suspended
    /\ arrivals' = arrivals + 1
    /\ process_message("ws", Encode(arrivals + 1, msg))
    /\ tcp_stream' = tcp_stream
    /\ UNCHANGED conn_vars
    /\ ListenerFrame

\* what a step of one connection's handler, or of the accept loop, leaves alone
ConnFrame ==
    UNCHANGED <<command_queue, unfinished_tasks, suspended, arrivals, wire_vars,
                accepted, sources, process_errors, dropped>>

\* asyncio.start_server / websockets.serve: the listener accepts a connection
\* and starts a handler task for it
listener_accept(t) ==
    /\ running
    /\ accepted_conns < MaxConnections
    /\ accepted_conns' = accepted_conns + 1
    /\ open_conns' = open_conns \cup {Conn(t, accepted_conns + 1)}
    /\ ConnFrame
    /\ ListenerFrame

\* config.secret_token when no token is configured (None)
NoToken == ""

\* the WebSocket handler started for a new connection whose handshake
\* carried the header value presented: with a token configured the handler
\* closes the connection and returns unless the value is the token; the
\* handlers of the other transports have no such test
ws_accept(secret_token, presented) ==
    /\ running
    /\ accepted_conns < MaxConnections
    /\ accepted_conns' = accepted_conns + 1
    /\ open_conns' = IF secret_token # NoToken /\ presented # secret_token
                     THEN open_conns
                     ELSE open_conns \cup {Conn("ws", accepted_conns + 1)}
    /\ ConnFrame
    /\ ListenerFrame

\* a handler whose error closes the listening socket with it
conn_reset_stops_listener(c) ==
    /\ c \in open_conns
    /\ open_conns' = open_conns \ {c}
    /\ running' = FALSE
    /\ accepted_conns' = accepted_conns
    /\ ConnFrame
    /\ UNCHANGED <<worker_vars, in_flight, exec_vars, config_vars, monitor_vars,
                   cancel_requested, raises, calls, finished, task_vars>>

\* the handler of connection c is woken by the end of its connection: read()
\* raises ConnectionResetError or returns no data, the WebSocket iteration
\* raises ConnectionClosed; the handler logs and returns
conn_reset(c) ==
    /\ c \in open_conns
    /\ open_conns' = open_conns \ {c}
    /\ accepted_conns' = accepted_conns
    /\ ConnFrame
    /\ ListenerFrame

\* the loop body of the handler of connection c: _process_message on the
\* payload msg, received whole
conn_message(c, msg) ==
    /\ c \in open_conns
    /\ c.transport \notin suspended
    /\ arrivals' = arrivals + 1
    /\ process_message(c.transport, Encode(arrivals + 1, msg))
    /\ tcp_stream' = tcp_stream
    /\ UNCHANGED conn_vars
    /\ ListenerFrame

\* the loop body of the handler of WebSocket connection c when the peer has
\* gone before the error reply is sent: ws.send raises ConnectionClosed out
\* of _process_message and the handler returns
conn_send_fails(c, msg) ==
    /\ c \in open_conns
    /\ c.transport = "ws"
    /\ c.transport \notin suspended
    /\ arrivals' = arrivals + 1
    /\ \E h \in {handle_message(Encode(arrivals + 1, msg))} :
         /\ h.reply # <<>>
         /\ process_handled("ws", [h EXCEPT !.reply = <<>>])
    /\ tcp_stream' = tcp_stream
    /\ open_conns' = open_conns \ {c}
    /\ accepted_conns' = accepted_conns
    /\ ListenerFrame

(* ------------------------------ the worker ----------------------------- *)

\* execute handing the call to the thread pool without awaiting it
execute_detached == FALSE

\* SystemController.execute awaits the call it hands to the thread pool
execute_awaits == TRUE

RECURSIVE LeadingCalls(_)
\* the number of leading steps of a plan that are injection calls
LeadingCalls(plan) ==
    IF plan = <<>> \/ plan[1].name = "sleep" THEN 0
    ELSE 1 + LeadingCalls(Tail(plan))

\* the number of calls the worker hands to the thread pool before it suspends
IssueCount(plan) ==
    IF execute_awaits THEN (IF LeadingCalls(plan) > 0 THEN 1 ELSE 0)
    ELSE LeadingCalls(plan)

\* the calls a plan's first n steps start, tagged with the command's id
Tagged(plan, n, id) ==
    [i \in 1..n |-> plan[i] @@ [id |-> id]]

\* the worker runs on with the steps in plan until it suspends: it starts the
\* next call, or sleeps, or (nothing left, or an exception) enters finally.
\* base holds the calls that stay in flight.
Proceed(base, plan, id, how) ==
    LET n == IssueCount(plan)
        rest == SubSeq(plan, n + 1, Len(plan))
    IN  /\ outcome' = how
        /\ IF how # "ok" \/ plan = <<>> THEN
               /\ worker_pc' = "finally"
               /\ pending' = <<>>
               /\ in_flight' = base
               /\ calls' = calls
           ELSE IF n = 0 THEN
               /\ worker_pc' = "sleep"
               /\ pending' = Tail(plan)
               /\ in_flight' = base
               /\ calls' = calls
           ELSE
               /\ in_flight' = base \o Tagged(plan, n, id)
               /\ calls' = calls \o Tagged(plan, n, id)
               /\ pending' = IF execute_awaits \/ rest = <<>> THEN rest ELSE Tail(rest)
               /\ worker_pc' = IF execute_awaits THEN "await"
                               ELSE IF rest = <<>> THEN "finally" ELSE "sleep"

\* a get that takes the newest item
queue_get_newest(queue) ==
    [item |-> queue[Len(queue)], rest |-> SubSeq(queue, 1, Len(queue) - 1)]

\* asyncio.Queue.get on a queue that holds an item: the oldest is taken
queue_get(queue) ==
    [item |-> Head(queue), rest |-> Tail(queue)]

\* the worker takes got.item off the queue; out is the outcome of the
\* synchronous part of _execute_command_internal
worker_take(got, out) ==
    /\ command' = got.item
    /\ command_queue' = got.rest
    /\ is_dragging' = out.st.is_dragging
    /\ last_position' = out.st.last_position
    /\ position_buffer' = out.st.position_buffer
    /\ velocity_buffer' = out.st.velocity_buffer
    /\ Proceed(in_flight, out.plan, got.item.id, IF out.raised THEN "error" ELSE "ok")

\* _command_worker: command = await queue.get(), then _execute_command_internal
\* up to its first await
worker_get ==
    /\ worker_pc = "get"
    /\ ~cancel_requested
    /\ command_queue # <<>>
    /\ worker_take(queue_get(command_queue),
           execute_command_internal(queue_get(command_queue).item, gesture_smoothing,
               enable_prediction,
               ExecState(is_dragging, last_position, position_buffer, velocity_buffer)))
    /\ UNCHANGED <<unfinished_tasks, config_vars, monitor_vars, running,
                   cancel_requested, suspended, raises, arrivals, wire_vars, conn_vars, task_vars, accepted, sources,
                   process_errors, dropped, finished>>

\* in_flight without its i-th call
Without(seq, i) ==
    SubSeq(seq, 1, i - 1) \o SubSeq(seq, i + 1, Len(seq))

\* the worker is suspended on the i-th call in flight and takes its result
\* (a worker whose cancellation is requested takes CancelledError instead)
\* the worker resuming from a call's return although it was cancelled
Awaited_ignores_cancel(i) ==
    /\ worker_pc = "await"
    /\ in_flight[i].id = command.id

Awaited(i) ==
    /\ worker_pc = "await"
    /\ ~cancel_requested
    /\ in_flight[i].id = command.id

\* the texts pyperclip.paste() can return
ClipboardTexts == {"", "clipboard_text"}

WorkerFrame ==
    UNCHANGED <<command_queue, unfinished_tasks, command, exec_vars, config_vars,
                monitor_vars, running, cancel_requested, suspended, arrivals, wire_vars, conn_vars, task_vars,
                accepted, sources, process_errors, dropped, finished>>

\* the call i the worker awaits returns text (read_clipboard returns the
\* clipboard's text); the worker runs on to its next await: translate stops
\* after an empty clipboard read (`if text:`)
call_returns(i, text) ==
    /\ Awaited(i)
    /\ Proceed(Without(in_flight, i),
               IF text = "" THEN <<>> ELSE pending, command.id, "ok")
    /\ raises' = raises
    /\ WorkerFrame

\* a call in the thread pool returns, to the worker if the worker awaits it
pool_return ==
    \E i \in DOMAIN in_flight :
        IF Awaited(i) THEN
            \E text \in (IF in_flight[i].name = "read_clipboard"
                         THEN ClipboardTexts ELSE {"clipboard_text"}) :
              call_returns(i, text)
        ELSE /\ in_flight' = Without(in_flight, i)
             /\ UNCHANGED <<worker_pc, pending, outcome, calls>>
             /\ raises' = raises
             /\ WorkerFrame

\* a call in the thread pool raises; the worker awaiting it catches the
\* exception (except Exception) and enters finally
pool_raise ==
    /\ raises < MaxRaises
    /\ raises' = raises + 1
    /\ \E i \in DOMAIN in_flight :
         IF Awaited(i) THEN Proceed(Without(in_flight, i), <<>>, command.id, "error")
         ELSE /\ in_flight' = Without(in_flight, i)
              /\ UNCHANGED <<worker_pc, pending, outcome, calls>>
    /\ WorkerFrame

\* asyncio.sleep(0.1) of translate is over; the worker runs on
sleep_done ==
    /\ worker_pc = "sleep"
    /\ ~cancel_requested
    /\ Proceed(in_flight, pending, command.id, "ok")
    /\ raises' = raises
    /\ WorkerFrame

\* record_command overwriting the total instead of adding to it
record_command_overwrites(n, total, maxl, minl, latency) ==
    [commands_processed |-> n + 1,
     total_latency |-> latency,
     max_latency |-> IF latency > maxl THEN latency ELSE maxl,
     min_latency |-> IF latency < minl THEN latency ELSE minl]

\* PerformanceMonitor.record_command, on the four counters
record_command(n, total, maxl, minl, latency) ==
    [commands_processed |-> n + 1,
     total_latency |-> FloatAdd(total, latency),
     max_latency |-> IF latency > maxl THEN latency ELSE maxl,
     min_latency |-> IF latency < minl THEN latency ELSE minl]

\* the zero of the statistics, and a statistic as the rational n / d
ZeroStat == <<0, 1>>

\* PerformanceMonitor.get_stats on the four counters, elapsed ticks after
\* start_time: every statistic is a float, as the rational <<numerator,
\* denominator>> in lowest terms
get_stats(n, total, maxl, minl, elapsed) ==
    IF n = 0
    THEN [commands_per_second |-> ZeroStat, avg_latency_ms |-> ZeroStat,
          max_latency_ms |-> ZeroStat, min_latency_ms |-> ZeroStat]
    ELSE [commands_per_second |-> FloatDiv(<<n, 1>>, <<elapsed, TicksPerSecond>>),
          avg_latency_ms |-> FloatMul(FloatDiv(<<total, 1>>, <<n, 1>>), <<MsPerTick, 1>>),
          max_latency_ms |-> FloatMul(<<maxl, 1>>, <<MsPerTick, 1>>),
          min_latency_ms |-> FloatMul(<<IF minl # InfLatency THEN minl ELSE 0, 1>>,
                                      <<MsPerTick, 1>>)]

\* a worker without the except clause: any error ends it
worker_survives_only_ok(how) ==
    how = "ok"

\* record_command moved from the finally block to the end of the try block
records_latency_on_success(how) ==
    how = "ok"

\* a finally block without task_done()
task_done_missing(n) ==
    n

\* except Exception catches every error of a command but CancelledError, so
\* the worker loops on after a command that ended `how` unless it was cancelled
worker_survives(how) ==
    how # "cancelled"

\* record_command sits in the finally block: it runs however the command ended
records_latency(how) ==
    TRUE

\* asyncio.Queue.task_done on the count of unfinished tasks
task_done(n) ==
    n - 1

\* the counters are set from the record m
SetMonitor(m) ==
    /\ commands_processed' = m.commands_processed
    /\ total_latency' = m.total_latency
    /\ max_latency' = m.max_latency
    /\ min_latency' = m.min_latency

\* the finally block of _command_worker: the latency is recorded, then
\* task_done(); a cancelled worker ends, any other loops back to get()
worker_finally(latency) ==
    /\ worker_pc = "finally"
    /\ ~lock_locked
    /\ IF records_latency(outcome)
       THEN SetMonitor(record_command(commands_processed, total_latency, max_latency,
                                      min_latency, latency))
       ELSE UNCHANGED monitor_vars
    /\ unfinished_tasks' = task_done(unfinished_tasks)
    /\ finished' = Append(finished, [id |-> command.id, action |-> command.action,
                                     outcome |-> outcome,
                                     recorded |-> commands_processed'])
    /\ command' = NoCommand
    /\ pending' = <<>>
    /\ outcome' = "ok"
    /\ worker_pc' = IF worker_survives(outcome) THEN "get" ELSE "cancelled"
    /\ UNCHANGED <<command_queue, in_flight, exec_vars, config_vars, running,
                   cancel_requested, suspended, raises, arrivals, wire_vars, conn_vars, task_vars, accepted, sources,
                   process_errors, dropped, calls>>

\* CancelledError reaches the worker at the await it is suspended on: at
\* queue.get() the task ends; inside a command the error passes except
\* Exception and the finally block, which awaits nothing, runs.  A call in
\* flight keeps running.
worker_cancelled ==
    /\ cancel_requested
    /\ worker_pc \in {"get", "await", "sleep"}
    /\ IF worker_pc = "get"
       THEN /\ worker_pc' = "cancelled"
            /\ UNCHANGED <<pending, outcome>>
       ELSE /\ worker_pc' = "finally"
            /\ pending' = <<>>
            /\ outcome' = "cancelled"
    /\ UNCHANGED <<command_queue, unfinished_tasks, command, in_flight, exec_vars,
                   config_vars, monitor_vars, running, cancel_requested, suspended,
                   raises, arrivals, wire_vars, conn_vars, task_vars, accepted, sources, process_errors, dropped, calls, finished>>

(* ------------------------------ shutdown ------------------------------- *)

\* WebServer.put_config: the request's gesture_smoothing is set on the
\* configuration object the executor reads, without validation
put_config(s) ==
    /\ running
    /\ s # gesture_smoothing
    /\ gesture_smoothing' = s
    /\ UNCHANGED <<command_queue, unfinished_tasks, worker_vars, in_flight, exec_vars,
                   enable_prediction, monitor_vars, running, cancel_requested,
                   suspended, raises, arrivals, wire_vars, conn_vars, task_vars, history_vars>>

\* what a task using the monitor leaves alone
MonitorFrame ==
    UNCHANGED <<command_queue, unfinished_tasks, worker_vars, in_flight, exec_vars,
                config_vars, running, cancel_requested, suspended, raises, arrivals,
                wire_vars, conn_vars, predicted, life_vars, history_vars>>

\* record_command(latency) called by task i: `async with self.lock` acquires
\* the lock once it is free
record_acquire(i, latency) ==
    /\ recorders[i].pc = "start"
    /\ ~lock_locked
    /\ lock_locked' = TRUE
    /\ recorders' = [recorders EXCEPT ![i] = Recorder("holding", latency)]
    /\ UNCHANGED <<monitor_vars, reader_pc, stats>>
    /\ MonitorFrame

\* the body of record_command in task i, and the release of the lock
record_update(i) ==
    /\ recorders[i].pc = "holding"
    /\ SetMonitor(record_command(commands_processed, total_latency, max_latency,
                                 min_latency, recorders[i].latency))
    /\ lock_locked' = FALSE
    /\ recorders' = [recorders EXCEPT ![i].pc = "done"]
    /\ UNCHANGED <<reader_pc, stats>>
    /\ MonitorFrame

\* get_stats called by the reading task: it acquires the lock once it is free
stats_acquire ==
    /\ reader_pc = "idle"
    /\ ~lock_locked
    /\ lock_locked' = TRUE
    /\ reader_pc' = "holding"
    /\ UNCHANGED <<monitor_vars, recorders, stats>>
    /\ MonitorFrame

\* the body of get_stats, elapsed ticks after start_time, and the release
stats_return(elapsed) ==
    /\ reader_pc = "holding"
    /\ stats' = <<get_stats(commands_processed, total_latency, max_latency,
                            min_latency, elapsed)>>
    /\ lock_locked' = FALSE
    /\ reader_pc' = "idle"
    /\ UNCHANGED <<monitor_vars, recorders>>
    /\ MonitorFrame

\* what a direct caller of the predictor leaves alone
PredictorFrame ==
    UNCHANGED <<command_queue, unfinished_tasks, worker_vars, in_flight, is_dragging,
                last_position, config_vars, monitor_vars, running, cancel_requested,
                suspended, raises, arrivals, wire_vars, conn_vars, lock_locked,
                recorders, reader_pc, stats, life_vars, history_vars>>

\* one direct call and what it returned: the position given in pixels
\* (numerators over PosDen), the timestamp, the returned pair of rationals
Prediction(cur, ts, r) ==
    [cur |-> cur, ts |-> ts, x |-> r.x, y |-> r.y]

\* predictor.predict_next_position(current_position=cur, timestamp=ts) called
\* on the predictor itself, as the unit tests do
predictor_call(cur, ts) ==
    /\ Len(predicted) < MaxPredictions
    /\ \E r \in {predict_next_position(position_buffer, velocity_buffer, cur, ts)} :
         /\ position_buffer' = r.position_buffer
         /\ velocity_buffer' = r.velocity_buffer
         /\ predicted' = Append(predicted, Prediction(cur, ts, r))
    /\ PredictorFrame

\* GestureServer.stop up to the cancel: running cleared, the sockets closed
stop_close ==
    /\ running
    /\ running' = FALSE
    /\ open_conns' = {c \in open_conns : c.transport # "ws"}
    /\ UNCHANGED <<command_queue, unfinished_tasks, worker_vars, in_flight, exec_vars,
                   config_vars, monitor_vars, cancel_requested, suspended, raises,
                   arrivals, wire_vars, accepted_conns, task_vars, history_vars>>

\* GestureServer.stop: executor.worker_task.cancel()
stop_cancel ==
    /\ ~running
    /\ ~cancel_requested
    /\ cancel_requested' = TRUE
    /\ UNCHANGED <<command_queue, unfinished_tasks, worker_vars, in_flight, exec_vars,
                   config_vars, monitor_vars, running, suspended, raises, arrivals, wire_vars, conn_vars, task_vars,
                   history_vars>>

\* the tasks start() gathers besides the logger: _start_websocket,
\* _start_udp, _start_tcp and the dashboard's web_site.start()
StartTasks == {"ws", "udp", "tcp", "web"}

\* one run of stop(): invoked by main's finally block or by a task the
\* signal handler created; created (not run yet), closing (running cleared,
\* awaiting the sockets and the dashboard) or done
StopTask(by, pc) == [by |-> by, pc |-> pc]

\* what the steps of main, start, stop and the logger leave alone
LifeFrame ==
    UNCHANGED <<command_queue, unfinished_tasks, worker_vars, in_flight, exec_vars,
                config_vars, monitor_vars, suspended, raises, arrivals, wire_vars,
                accepted_conns, lock_locked, recorders, reader_pc, predicted,
                history_vars>>

\* one gathered start task returns: its socket is bound
start_task_done(t) ==
    /\ main_pc # "done"
    /\ t \in starting
    /\ starting' = starting \ {t}
    /\ UNCHANGED <<running, cancel_requested, open_conns, stats, main_pc, logger_pc,
                   stop_tasks>>
    /\ LifeFrame

\* one gathered start task raises (the port is taken): gather hands the
\* first exception to start(), which hands it to main; the other gathered
\* tasks go on
start_task_raises(t) ==
    /\ main_pc # "done"
    /\ t \in starting
    /\ starting' = starting \ {t}
    /\ main_pc' = IF main_pc = "start" THEN "raised" ELSE main_pc
    /\ UNCHANGED <<running, cancel_requested, open_conns, stats, logger_pc, stop_tasks>>
    /\ LifeFrame

\* a logger that tests running nowhere: it reads and sleeps for ever
performance_logger_wakes_unchecked(elapsed) ==
    /\ main_pc # "done"
    /\ logger_pc = "sleep"
    /\ ~lock_locked
    /\ \E r \in {get_stats(commands_processed, total_latency, max_latency,
                            min_latency, elapsed)} : stats' = <<r>>
    /\ logger_pc' = "sleep"
    /\ UNCHANGED <<running, cancel_requested, open_conns, main_pc, starting, stop_tasks>>
    /\ LifeFrame

\* _performance_logger when its sleep ends: it leaves the loop if running
\* is cleared; otherwise it reads the statistics (elapsed ticks after
\* start_time), logs them, tests running again and sleeps again
performance_logger_wakes(elapsed) ==
    /\ main_pc # "done"
    /\ logger_pc = "sleep"
    /\ IF running
       THEN /\ ~lock_locked
            /\ \E r \in {get_stats(commands_processed, total_latency, max_latency,
                                    min_latency, elapsed)} : stats' = <<r>>
            /\ logger_pc' = "sleep"
       ELSE /\ logger_pc' = "done"
            /\ stats' = stats
    /\ UNCHANGED <<running, cancel_requested, open_conns, main_pc, starting, stop_tasks>>
    /\ LifeFrame

\* gather returns once the start tasks and the logger have all returned,
\* and start() returns to main
start_returns ==
    /\ main_pc = "start"
    /\ starting = {}
    /\ logger_pc = "done"
    /\ main_pc' = "returned"
    /\ UNCHANGED <<running, cancel_requested, open_conns, stats, logger_pc, starting,
                   stop_tasks>>
    /\ LifeFrame

\* main's signal_handler, on SIGINT or SIGTERM: create_task(server.stop())
signal_handler ==
    /\ main_pc # "done"
    /\ Cardinality({i \in DOMAIN stop_tasks : stop_tasks[i].by = "signal"}) < MaxSignals
    /\ stop_tasks' = Append(stop_tasks, StopTask("signal", "created"))
    /\ UNCHANGED <<running, cancel_requested, open_conns, stats, main_pc, logger_pc,
                   starting>>
    /\ LifeFrame

\* a stop() task created by the signal handler runs up to its first await:
\* running cleared, the sockets closed
stop_task_begins(i) ==
    /\ main_pc # "done"
    /\ stop_tasks[i].pc = "created"
    /\ running' = FALSE
    /\ open_conns' = {c \in open_conns : c.transport # "ws"}
    /\ stop_tasks' = [stop_tasks EXCEPT ![i].pc = "closing"]
    /\ UNCHANGED <<cancel_requested, stats, main_pc, logger_pc, starting>>
    /\ LifeFrame

\* a run of stop() past its awaits: executor.worker_task.cancel()
stop_task_ends(i) ==
    /\ main_pc # "done"
    /\ stop_tasks[i].pc = "closing"
    /\ cancel_requested' = TRUE
    /\ stop_tasks' = [stop_tasks EXCEPT ![i].pc = "done"]
    /\ UNCHANGED <<running, open_conns, stats, main_pc, logger_pc, starting>>
    /\ LifeFrame

\* main's finally block once start() has returned or raised: `if
\* server.running: await server.stop()`, the stop() running inside main up
\* to its first await
main_finally ==
    /\ main_pc \in {"returned", "raised"}
    /\ IF running
       THEN /\ running' = FALSE
            /\ open_conns' = {c \in open_conns : c.transport # "ws"}
            /\ stop_tasks' = Append(stop_tasks, StopTask("main", "closing"))
            /\ main_pc' = "stop"
       ELSE /\ main_pc' = "done"
            /\ UNCHANGED <<running, open_conns, stop_tasks>>
    /\ UNCHANGED <<cancel_requested, stats, logger_pc, starting>>
    /\ LifeFrame

\* the stop() that main awaits has returned, and main returns
main_returns ==
    /\ main_pc = "stop"
    /\ \E i \in DOMAIN stop_tasks :
         stop_tasks[i].by = "main" /\ stop_tasks[i].pc = "done"
    /\ main_pc' = "done"
    /\ UNCHANGED <<running, cancel_requested, open_conns, stats, logger_pc, starting,
                   stop_tasks>>
    /\ LifeFrame

(* --------------------------- specifications ---------------------------- *)

\* ServerConfig's defaults: gesture_smoothing = 0.7, enable_prediction = True
DefaultSmoothing == 7

\* the smoothing factors (numerators over SmoothDen) a configuration may hold
Smoothings == {0, 5, 7}
\* the latencies (in ticks) the worker measures
Latencies == {1}

Listen(messages, limit) ==
    /\ arrivals < limit
    /\ \E msg \in messages :
         \/ udp_datagram_received(msg)
         \/ tcp_handler_read(msg)
         \/ ws_handler_message(msg)

\* the server with its default configuration, clients sending the pipeline
\* workload, injection calls that may raise, and stop()
Init ==
    InitWith({DefaultSmoothing}, {TRUE})

Next ==
    \/ Listen(PipelineMessages(arrivals + 1), MaxPayloads)
    \/ worker_get
    \/ pool_return
    \/ pool_raise
    \/ sleep_done
    \/ \E latency \in Latencies : worker_finally(latency)
    \/ worker_cancelled
    \/ stop_close
    \/ stop_cancel

Spec ==
    Init /\ [][Next]_vars

\* the server under any configuration, a client sending the positional
\* workload in datagrams to an injection surface that does not fail
InitExec ==
    InitWith(Smoothings, BOOLEAN)

NextExec ==
    \/ /\ arrivals < MaxExecPayloads
       /\ \E msg \in PositionalMessages(arrivals + 1) : udp_datagram_received(msg)
    \/ worker_get
    \/ pool_return
    \/ \E latency \in Latencies : worker_finally(latency)

SpecExec ==
    InitExec /\ [][NextExec]_vars

\* the server with smoothing and prediction off, clients flooding the queue
\* past its capacity
InitFlood ==
    InitWith({0}, {FALSE})

NextFlood ==
    \/ Listen(FloodMessages(arrivals + 1), QueueMaxSize + FloodExtra)
    \/ worker_get
    \/ pool_return
    \/ \E latency \in Latencies : worker_finally(latency)

SpecFlood ==
    InitFlood /\ [][NextFlood]_vars

\* the server with smoothing and prediction off, clients sending the wire
\* workload: datagrams, WebSocket frames, and a TCP stream read in any
\* segmentation
InitWire ==
    InitWith({0}, {FALSE})

WireSend(messages, limit) ==
    /\ arrivals < limit
    /\ \E msg \in messages :
         \/ udp_datagram_received(msg)
         \/ tcp_client_send(msg)
         \/ ws_handler_message(msg)

NextWire ==
    \/ WireSend(WireMessages(arrivals + 1), MaxWirePayloads)
    \/ \E n \in 1..Len(tcp_stream) : tcp_handler_read_stream(n)
    \/ worker_get
    \/ pool_return
    \/ \E latency \in Latencies : worker_finally(latency)

SpecWire ==
    InitWire /\ [][NextWire]_vars

\* the server with smoothing on and prediction off, a client sending the
\* smoothing workload in datagrams
SmoothingsOn == {5, 7}

InitSmooth ==
    InitWith(SmoothingsOn, {FALSE})

NextSmooth ==
    \/ /\ arrivals < MaxSmoothPayloads
       /\ \E msg \in SmoothMessages(arrivals + 1) : udp_datagram_received(msg)
    \/ worker_get
    \/ pool_return
    \/ \E latency \in Latencies : worker_finally(latency)

SpecSmooth ==
    InitSmooth /\ [][NextSmooth]_vars

\* the server started with smoothing off and prediction off, a client sending
\* the smoothing workload in datagrams while the dashboard updates
\* gesture_smoothing
\* the values (numerators over SmoothDen) a PUT /api/config request sets
\* gesture_smoothing to: put_config takes any number, 1.0 and 1.5 included
ConfigSmoothings == Smoothings \cup {10, 15}

InitConfig ==
    InitWith({0}, {FALSE})

NextConfig ==
    \/ /\ arrivals < MaxConfigPayloads
       /\ \E msg \in SmoothMessages(arrivals + 1) : udp_datagram_received(msg)
    \/ \E s \in ConfigSmoothings : put_config(s)
    \/ worker_get
    \/ pool_return
    \/ \E latency \in Latencies : worker_finally(latency)

SpecConfig ==
    InitConfig /\ [][NextConfig]_vars

\* the monitor with tasks that record latencies and a task that reads the
\* statistics again and again
MonitorLatencies == {0, 1, 3, 43}
ElapsedTicks == {1, 2}

InitMonitor ==
    InitWith({0}, {FALSE})

NextMonitor ==
    \/ \E i \in DOMAIN recorders : \E latency \in MonitorLatencies :
         record_acquire(i, latency)
    \/ \E i \in DOMAIN recorders : record_update(i)
    \/ stats_acquire
    \/ \E elapsed \in ElapsedTicks : stats_return(elapsed)

SpecMonitor ==
    InitMonitor /\ [][NextMonitor]_vars

\* the server with clients that connect, send and disconnect: datagrams,
\* accepted connections, their messages and their ends
StreamTransports == {"tcp", "ws"}

InitConn ==
    InitWith({0}, {FALSE})

NextConn ==
    \/ /\ arrivals < MaxConnPayloads
       /\ \E msg \in ConnMessages(arrivals + 1) :
            \/ udp_datagram_received(msg)
            \/ \E c \in open_conns : conn_message(c, msg)
            \/ \E c \in open_conns : conn_send_fails(c, msg)
    \/ \E t \in StreamTransports : listener_accept(t)
    \/ \E c \in open_conns : conn_reset(c)
    \/ worker_get
    \/ pool_return
    \/ \E latency \in Latencies : worker_finally(latency)

SpecConn ==
    InitConn /\ [][NextConn]_vars

\* the predictor called directly with positions on and off the screen; the
\* n-th call is stamped by one of two clocks a tick apart, so that from one
\* call to the next the time advances by one or two ticks or stands still
PredictorPixels == {<<1910, 1070>>, <<1930, 1090>>, <<-10, 540>>}
PredictorPositions == {<<p[1] * PosDen, p[2] * PosDen>> : p \in PredictorPixels}
PredictorTimestamps(n) == {n + 10, n + 9}

InitPredict ==
    InitWith({0}, {TRUE})

NextPredict ==
    \E cur \in PredictorPositions : \E ts \in PredictorTimestamps(Len(predicted)) :
        predictor_call(cur, ts)

SpecPredict ==
    InitPredict /\ [][NextPredict]_vars

\* the server started with smoothing and prediction off, a client sending
\* the drag workload in datagrams, injection calls that may raise, and the
\* dashboard switching smoothing on and off
DragSmoothings == {0, 5}

InitDrag ==
    InitWith({0}, {FALSE})

NextDrag ==
    \/ /\ arrivals < MaxDragPayloads
       /\ \E msg \in DragMessages(arrivals + 1) : udp_datagram_received(msg)
    \/ \E s \in DragSmoothings : put_config(s)
    \/ worker_get
    \/ pool_return
    \/ pool_raise
    \/ \E latency \in Latencies : worker_finally(latency)

SpecDrag ==
    InitDrag /\ [][NextDrag]_vars

\* the server with prediction on and smoothing on or off, a client sending
\* the unknown-action workload in datagrams
UnknownSmoothings == {0, 5}

InitUnknown ==
    InitWith(UnknownSmoothings, {TRUE})

NextUnknown ==
    \/ /\ arrivals < MaxUnknownPayloads
       /\ \E msg \in UnknownMessages(arrivals + 1) : udp_datagram_received(msg)
    \/ worker_get
    \/ pool_return
    \/ \E latency \in Latencies : worker_finally(latency)

SpecUnknown ==
    InitUnknown /\ [][NextUnknown]_vars

\* the server configured with a secret token: clients that open WebSocket
\* connections with the token, with another value or with none, clients
\* that open TCP connections, and payloads on every transport.  The
\* WebSocket connection open at the start presented the token.
SecretToken == "s3cret"
PresentedTokens == {SecretToken, "guess", NoToken}

InitAuth ==
    InitWith({0}, {FALSE})

NextAuth ==
    \/ /\ arrivals < MaxAuthPayloads
       /\ \E msg \in AuthMessages(arrivals + 1) :
            \/ udp_datagram_received(msg)
            \/ \E c \in open_conns : conn_message(c, msg)
    \/ \E presented \in PresentedTokens : ws_accept(SecretToken, presented)
    \/ listener_accept("tcp")
    \/ \E c \in open_conns : conn_reset(c)
    \/ worker_get
    \/ pool_return
    \/ \E latency \in Latencies : worker_finally(latency)

SpecAuth ==
    InitAuth /\ [][NextAuth]_vars

\* the server from the moment start() awaits gather, the WebSocket and TCP
\* listeners bound already: the other start tasks bind their sockets or
\* fail, the logger wakes every period, a client sends datagrams, signals
\* arrive, and main ends when start() has returned or raised.  The event
\* loop runs until main returns.
LifeStartTasks == {"udp", "web"}

LifeMessages(id) ==
    { Envelope(id, "click", Quarters(2, 2), 10, EmptyDict) }

InitLife ==
    InitServer({0}, {FALSE}, LifeStartTasks)

NextLife ==
    \/ \E t \in StartTasks : start_task_done(t)
    \/ \E t \in StartTasks : start_task_raises(t)
    \/ \E elapsed \in ElapsedTicks : performance_logger_wakes(elapsed)
    \/ start_returns
    \/ signal_handler
    \/ \E i \in DOMAIN stop_tasks : stop_task_begins(i)
    \/ \E i \in DOMAIN stop_tasks : stop_task_ends(i)
    \/ main_finally
    \/ main_returns
    \/ /\ main_pc # "done"
       /\ "udp" \notin starting
       /\ arrivals < MaxLifePayloads
       /\ \E msg \in LifeMessages(arrivals + 1) : udp_datagram_received(msg)
    \/ main_pc # "done" /\ worker_get
    \/ main_pc # "done" /\ pool_return
    \/ main_pc # "done" /\ \E latency \in Latencies : worker_finally(latency)
    \/ main_pc # "done" /\ worker_cancelled

SpecLife ==
    InitLife /\ [][NextLife]_vars

\* the event loop runs every task that is ready: the logger's sleep ends
\* (the wake-ups after stop() are all the claims need), and start() resumes
\* when gather is done
FairLife ==
    /\ WF_vars(~running /\ \E elapsed \in ElapsedTicks : performance_logger_wakes(elapsed))
    /\ WF_vars(start_returns)

SpecLifeFair ==
    SpecLife /\ FairLife

(* ------------------------------- claims -------------------------------- *)

\* the number of injection calls started for the command with this id
CallsOf(id) ==
    Cardinality({i \in DOMAIN calls : calls[i].id = id})

\* the place of id in a sequence of ids
IndexOf(ids, id) ==
    CHOOSE k \in DOMAIN ids : ids[k] = id

\* C1: at most one injection call is in flight in every reachable state, and
\* a call in flight belongs to the command whose call was started last: no
\* call of a later command starts while one of an earlier command still runs.
C1_OneInjectionInFlight ==
    /\ Len(in_flight) <= 1
    /\ \A i \in DOMAIN in_flight :
         calls # <<>> /\ in_flight[i].id = calls[Len(calls)].id

\* the first command is finished and a call of the second, accepted from
\* another transport, is in flight
C1_Witness ==
    /\ Len(in_flight) = 1
    /\ Len(finished) = 1
    /\ in_flight[1].id = accepted[2]
    /\ Cardinality(sources) >= 2

\* C2: injection calls are started in the order in which their commands
\* were accepted into the queue, and commands finish in that order.
C2_FifoDispatch ==
    /\ \A i, j \in DOMAIN calls :
         i < j => IndexOf(accepted, calls[i].id) <= IndexOf(accepted, calls[j].id)
    /\ \A k \in DOMAIN finished : finished[k].id = accepted[k]

\* calls of two commands, accepted from different transports, were started
C2_Witness ==
    /\ Cardinality(sources) >= 2
    /\ Len(accepted) = 2
    /\ \E i, j \in DOMAIN calls : calls[i].id # calls[j].id

\* C3: every accepted command is finished, held by the worker or still
\* queued, exactly once and in order; task_done ran once per finished
\* command; a command whose calls all returned had each of its calls started
\* once; and while the worker is not cancelled, join() can return
\* (unfinished_tasks = 0) only when every accepted command is finished, its
\* latency recorded and no call left in flight.
C3_ExactlyOnce ==
    /\ accepted = Ids(finished)
                  \o (IF command.id = 0 THEN <<>> ELSE <<command.id>>)
                  \o Ids(command_queue)
    /\ unfinished_tasks = Len(accepted) - Len(finished)
    /\ \A k \in DOMAIN finished :
         finished[k].outcome = "ok" =>
           /\ finished[k].action = "move" => CallsOf(finished[k].id) = 1
           /\ finished[k].action = "zoom" => CallsOf(finished[k].id) = 3
           /\ finished[k].action = "translate" => CallsOf(finished[k].id) \in {2, 5}
    /\ (unfinished_tasks = 0 /\ ~cancel_requested) =>
         /\ Len(finished) = Len(accepted)
         /\ commands_processed = Len(accepted)
         /\ in_flight = <<>>
         /\ worker_pc = "get"

\* join() can return after commands from two transports were dispatched
C3_Witness ==
    /\ unfinished_tasks = 0
    /\ ~cancel_requested
    /\ Len(accepted) >= 2
    /\ Cardinality(sources) >= 2
    /\ \A k \in DOMAIN finished : finished[k].outcome = "ok"

\* C4: the command queue never holds more than its capacity.
C4_QueueBounded ==
    Len(command_queue) <= QueueMaxSize

\* the queue is full and a command was dropped
C4_Witness ==
    /\ Len(command_queue) = QueueMaxSize
    /\ dropped # <<>>

\* C5: a submit on a full queue drops the incoming command: the queue is
\* unchanged, the caller is neither suspended nor handed an exception, and a
\* dropped command is never queued, held, dispatched or finished.
C5_DropIncoming ==
    /\ [][(Len(command_queue) >= QueueMaxSize /\ arrivals' # arrivals) =>
            /\ command_queue' = command_queue
            /\ dropped' = Append(dropped, arrivals')
            /\ accepted' = accepted
            /\ suspended' = suspended
            /\ process_errors' = process_errors]_vars
    /\ [](\A d \in DOMAIN dropped :
            /\ CallsOf(dropped[d]) = 0
            /\ command.id # dropped[d]
            /\ \A k \in DOMAIN command_queue : command_queue[k].id # dropped[d]
            /\ \A k \in DOMAIN finished : finished[k].id # dropped[d])

\* a command was dropped and the worker has drained the whole queue since
C5_Witness ==
    /\ dropped # <<>>
    /\ command_queue = <<>>
    /\ worker_pc = "get"
    /\ Len(finished) = QueueMaxSize

\* C6: no listener is ever left suspended in submit_command, and whatever
\* the queue holds and wherever the worker is, every listener can take its
\* next payload.
C6_ListenersNeverWait ==
    /\ suspended = {}
    /\ process_errors = 0
    /\ arrivals < QueueMaxSize + FloodExtra =>
         /\ ENABLED (\E msg \in FloodMessages(arrivals + 1) : udp_datagram_received(msg))
         /\ ENABLED (\E msg \in FloodMessages(arrivals + 1) : tcp_handler_read(msg))
         /\ ENABLED (\E msg \in FloodMessages(arrivals + 1) : ws_handler_message(msg))

\* the worker is still inside its first call while the listeners have filled
\* the queue and dropped further payloads
C6_Witness ==
    /\ worker_pc = "await"
    /\ finished = <<>>
    /\ Len(calls) = 1
    /\ Len(dropped) >= 2
    /\ Cardinality(sources) = 3

\* C7: the step that takes a drag_end off the queue while idle, or a
\* drag_start while dragging, starts no injection call and leaves none to start.
C7_DragNoOps ==
    [][(/\ worker_pc = "get"
        /\ worker_pc' # "get"
        /\ \/ command'.action = "drag_end" /\ ~is_dragging
           \/ command'.action = "drag_start" /\ is_dragging) =>
         /\ calls' = calls
         /\ in_flight' = in_flight
         /\ pending' = <<>>
         /\ worker_pc' = "finally"]_vars

\* a drag_start was processed while dragging: it finished without a call
C7_Witness ==
    \E k \in DOMAIN finished :
      /\ finished[k].action = "drag_start"
      /\ finished[k].outcome = "ok"
      /\ CallsOf(finished[k].id) = 0

\* C8: every coordinate handed to a positional injection call lies on the
\* screen, and so does last_position; move_relative takes a delta instead.
C8_OnScreen ==
    /\ \A i \in DOMAIN calls :
         calls[i].pos # <<>> =>
           /\ calls[i].pos[1] \in 0..ScreenWidth
           /\ calls[i].pos[2] \in 0..ScreenHeight
    /\ \A i \in DOMAIN calls :
         (calls[i].name \in {"move_to", "click", "double_click", "mouse_down",
                             "mouse_up", "scroll", "hscroll"}) = (calls[i].pos # <<>>)
    /\ last_position[1] \in 0..ScreenWidth
    /\ last_position[2] \in 0..ScreenHeight

\* with prediction and smoothing on, a move was dispatched for a position
\* outside the unit square, after an earlier move
C8_Witness ==
    /\ enable_prediction
    /\ gesture_smoothing > 0
    /\ Len(position_buffer) = 2
    /\ position_buffer[2][1] > ScreenWidth * PosDen
    /\ \E i \in DOMAIN calls : calls[i].name = "move_to" /\ calls[i].id = 2

\* C9: the worker ends only by cancellation, never by a command's failure,
\* and a move processed right after a failed command gets its one call.
C9_ErrorIsolation ==
    /\ worker_pc = "cancelled" => cancel_requested
    /\ \A k \in DOMAIN finished :
         (/\ k > 1
          /\ finished[k - 1].outcome = "error"
          /\ finished[k].outcome = "ok"
          /\ finished[k].action = "move") => CallsOf(finished[k].id) = 1

\* a command failed in an injection call and the next one was dispatched
C9_Witness ==
    \E k \in DOMAIN finished :
      /\ k > 1
      /\ finished[k - 1].outcome = "error"
      /\ CallsOf(finished[k - 1].id) >= 1
      /\ finished[k].outcome = "ok"
      /\ CallsOf(finished[k].id) >= 1

\* C10: commands_processed equals the number of commands the worker has
\* finished, and each command's latency was recorded by the time it was
\* marked done, whether it succeeded, failed or was cancelled.
C10_OneLatencyRecord ==
    /\ commands_processed = Len(finished)
    /\ total_latency = Len(finished)
    /\ \A k \in DOMAIN finished : finished[k].recorded = k

\* a failed command and a successful one were both recorded
C10_Witness ==
    /\ commands_processed = 2
    /\ \E k \in DOMAIN finished : finished[k].outcome = "error"
    /\ \E k \in DOMAIN finished : finished[k].outcome = "ok"

\* a text that does not parse as JSON
NotJson(msg) ==
    "garbage" \in DOMAIN msg

\* a JSON object
JsonObject(msg) ==
    ~NotJson(msg) /\ "not_a_dict" \notin DOMAIN msg

\* a JSON object whose type is "gesture_command"
GestureCommandType(msg) ==
    JsonObject(msg) /\ "type" \in DOMAIN msg /\ msg.type = "gesture_command"

\* a gesture command that has its id and its payload.action
WellFormed(msg) ==
    /\ GestureCommandType(msg)
    /\ "id" \in DOMAIN msg
    /\ "payload" \in DOMAIN msg
    /\ "action" \in DOMAIN msg.payload

\* the elements of a sequence
Range(seq) ==
    {seq[k] : k \in DOMAIN seq}

\* C11: a listener step puts a command on the queue (or drops it on a full
\* queue) only if the bytes it processed are the whole text of one payload
\* that parses as JSON, has type "gesture_command" and has both id and
\* payload.action; the command queued carries that id and action.
C11_OnlyValidEnqueued ==
    /\ [][\A msg \in WireMessages(arrivals + 1) :
            ((udp_datagram_received(msg) \/ ws_handler_message(msg)) /\ ~WellFormed(msg)) =>
              /\ command_queue' = command_queue
              /\ accepted' = accepted
              /\ dropped' = dropped]_vars
    /\ [][\A n \in 1..Len(tcp_stream) :
            (tcp_handler_read_stream(n) /\ command_queue' # command_queue) =>
              /\ IsWhole(SubSeq(tcp_stream, 1, n))
              /\ WellFormed(tcp_stream[1].of)
              /\ command_queue' = Append(command_queue, command_queue'[Len(command_queue')])
              /\ command_queue'[Len(command_queue')].id = tcp_stream[1].of.id
              /\ command_queue'[Len(command_queue')].action = tcp_stream[1].of.payload.action]_vars
    /\ [][\A msg \in WireMessages(arrivals + 1) :
            tcp_client_send(msg) => command_queue' = command_queue]_vars
    /\ [](\A k \in DOMAIN command_queue :
            /\ command_queue[k].id \in 1..arrivals
            /\ command_queue[k].action \in {"move", "click"})

\* the first payload, invalid, was answered on the WebSocket and not queued;
\* the second, valid, was accepted
C11_Witness ==
    /\ arrivals = 2
    /\ accepted = <<2>>
    /\ Len(ws_replies) = 1
    /\ tcp_stream = <<>>

\* the reply the WebSocket client is due for a message
ExpectedReplies(msg) ==
    IF NotJson(msg) THEN <<[error |-> "Invalid JSON format"]>>
    ELSE IF GestureCommandType(msg) /\ ~WellFormed(msg)
    THEN <<[error |-> "Invalid command format",
            id |-> IF "id" \in DOMAIN msg THEN msg.id ELSE Null]>>
    ELSE <<>>

C13_EveryPayloadDecoded ==
    /\ [][\A msg \in WireMessages(arrivals + 1) :
            ((udp_datagram_received(msg) \/ ws_handler_message(msg)) /\ WellFormed(msg)) =>
              msg.id \in Range(accepted') \cup Range(dropped')]_vars
    /\ [][\A n \in 1..Len(tcp_stream) :
            tcp_handler_read_stream(n) =>
              \A i \in 1..n :
                (tcp_stream[i].part = "tail" /\ WellFormed(tcp_stream[i].of)) =>
                  tcp_stream[i].of.id \in Range(accepted') \cup Range(dropped')]_vars

\* the pixel a command's position denormalizes to, for a position in the unit square
TargetOf(cmd) ==
    <<(cmd.position[1] * ScreenWidth) \div PosDen,
      (cmd.position[2] * ScreenHeight) \div PosDen>>

\* floor((1 - s) * t + s * l) for the smoothing factor s / SmoothDen
Blend(t, l, s) ==
    ((SmoothDen - s) * t + s * l) \div SmoothDen

\* the step in which the worker takes a command and runs it to its first await
Dequeues ==
    worker_pc = "get" /\ worker_pc' # "get"

C15_ConvergesToTarget ==
    [][(Dequeues /\ gesture_smoothing > 0 /\ last_position' = last_position) =>
         last_position' = TargetOf(command')]_vars

\* one axis of a smoothing step from l to e with target t: e lies between l
\* and t; from above it moves strictly closer; from below it moves strictly
\* closer or stalls no more than 1/(1-s) pixels short; on the target it stays
ApproachesTarget(t, l, e, s) ==
    /\ (l <= t) => (l <= e /\ e <= t)
    /\ (l >= t) => (t <= e /\ e <= l)
    /\ (l > t) => e < l
    /\ (l < t /\ e = l) => (t - l) * (SmoothDen - s) <= SmoothDen

\* C15 amended: each repetition moves the emitted position monotonically
\* toward the target and never past it; approached from above the target is
\* reached exactly after finitely many commands, approached from below the
\* position stops no more than 1/(1-s) pixels short of it (truncation); an
\* emitted position equal to the target stays equal.
C15_ConvergesNearTarget ==
    [][(Dequeues /\ gesture_smoothing > 0) =>
         \A axis \in {1, 2} :
           ApproachesTarget(TargetOf(command')[axis], last_position[axis],
                            last_position'[axis], gesture_smoothing)]_vars

\* with s = 0.5 the target (6, 3) repeated four times: the third and fourth
\* commands both emit (5, 2), one pixel short on each axis
C15_Witness ==
    /\ gesture_smoothing = 5
    /\ Len(calls) = 4
    /\ calls[3].pos = <<5, 2>>
    /\ calls[4].pos = <<5, 2>>
    /\ last_position = <<5, 2>>

\* C16: while the smoothing factor is <= 0 a positional command's call is
\* at the target itself and last_position becomes that target; a command
\* dispatched with smoothing on blends from the position of the call issued
\* just before it, whatever the smoothing factor was then.
C16_DisabledSmoothingTracks ==
    /\ [][(Dequeues /\ gesture_smoothing <= 0) =>
            /\ calls'[Len(calls')].pos = TargetOf(command')
            /\ last_position' = TargetOf(command')]_vars
    /\ [][(Dequeues /\ gesture_smoothing > 0 /\ calls # <<>>) =>
            \A axis \in {1, 2} :
              calls'[Len(calls')].pos[axis] =
                Blend(TargetOf(command')[axis], calls[Len(calls)].pos[axis],
                      gesture_smoothing)]_vars

\* the pixel a command's position denormalizes to, clamped to the screen
ClampedTargetOf(cmd) ==
    <<Clamp(Trunc(cmd.position[1] * ScreenWidth, PosDen), ScreenWidth),
      Clamp(Trunc(cmd.position[2] * ScreenHeight, PosDen), ScreenHeight)>>

\* the position emitted for the pixel t with the executor at last_position
EmittedFor(t) ==
    IF gesture_smoothing > 0
    THEN <<Blend(t[1], last_position[1], gesture_smoothing),
           Blend(t[2], last_position[2], gesture_smoothing)>>
    ELSE t

\* the predictor falls back on the sample just appended to the buffer pb:
\* it is the only sample, or it is not later than the sample before it
FallsBack(pb) ==
    \/ Len(pb) < 2
    \/ pb[Len(pb)][3] - pb[Len(pb) - 1][3] <= 0

\* C17: a move dispatched with prediction on appends its sample to the
\* position buffer; when the buffer then holds fewer than two samples, or the
\* sample's timestamp is not later than the previous sample's, the predictor
\* returns the input position (the move goes to the command's own pixel,
\* smoothed if smoothing is on) and the velocity buffer is left as it was.
C17_PredictionFallback ==
    [][(Dequeues /\ enable_prediction /\ command'.action = "move") =>
         /\ Len(position_buffer') >= 1
         /\ position_buffer'[Len(position_buffer')] =
              <<command'.position[1] * ScreenWidth,
                command'.position[2] * ScreenHeight, command'.timestamp>>
         /\ FallsBack(position_buffer') =>
              /\ velocity_buffer' = velocity_buffer
              /\ calls'[Len(calls')].pos = EmittedFor(ClampedTargetOf(command'))]_vars

\* two moves were dispatched with prediction on, the second stamped earlier
\* than the first: no velocity sample was recorded
C17_Witness ==
    /\ enable_prediction
    /\ Len(position_buffer) = 2
    /\ position_buffer[2][3] < position_buffer[1][3]
    /\ velocity_buffer = <<>>
    /\ Len(calls) = 2
    /\ calls[1].name = "move_to"
    /\ calls[2].name = "move_to"

\* C18: with smoothing and prediction off, the step that dispatches a move
\* command starts exactly one call, move_to at the command's denormalized
\* position clamped to the screen, and leaves nothing further to issue for
\* it; calls start only in a dispatch step or for a command with steps still
\* to issue; the position (0.5, 0.5) gives move_to(960, 540).
C18_MoveDispatch ==
    /\ [][(/\ Dequeues
           /\ command'.action = "move"
           /\ gesture_smoothing <= 0
           /\ ~enable_prediction) =>
            /\ Len(calls') = Len(calls) + 1
            /\ SubSeq(calls', 1, Len(calls)) = calls
            /\ calls'[Len(calls')].id = command'.id
            /\ calls'[Len(calls')].name = "move_to"
            /\ calls'[Len(calls')].pos = ClampedTargetOf(command')
            /\ (command'.position = Quarters(2, 2)) =>
                 calls'[Len(calls')].pos = <<960, 540>>
            /\ pending' = <<>>]_vars
    /\ [][calls' # calls => (Dequeues \/ pending # <<>>)]_vars

\* a move at (0.5, 0.5) received on the WebSocket was dispatched as
\* move_to(960, 540) and completed, with no other call
C18_Witness ==
    /\ sources = {"ws"}
    /\ Len(calls) = 1
    /\ calls[1].name = "move_to"
    /\ calls[1].pos = <<960, 540>>
    /\ Len(finished) = 1

\* the direction and the amount a scroll command asks for
ScrollDirection(cmd) ==
    IF "direction" \in DOMAIN cmd.metadata THEN cmd.metadata.direction ELSE "up"

ScrollAmount(cmd) ==
    IF "amount" \in DOMAIN cmd.metadata THEN cmd.metadata.amount ELSE 3

\* C19: the step that dispatches a scroll command starts exactly one call
\* and leaves nothing further to issue: for the directions up and down
\* (up when none is given) a vertical scroll by +amount and -amount (amount
\* 3 when none is given), for any other direction a horizontal scroll by
\* +amount for right and -amount otherwise; down with 5 scrolls by -5, left
\* with 10 scrolls horizontally by -10.
C19_ScrollDispatch ==
    [][(Dequeues /\ command'.action = "scroll") =>
         /\ Len(calls') = Len(calls) + 1
         /\ SubSeq(calls', 1, Len(calls)) = calls
         /\ pending' = <<>>
         /\ calls'[Len(calls')].id = command'.id
         /\ calls'[Len(calls')].name =
              (IF ScrollDirection(command') \in {"up", "down"} THEN "scroll" ELSE "hscroll")
         /\ calls'[Len(calls')].amount =
              (IF ScrollDirection(command') \in {"up", "right"}
               THEN ScrollAmount(command') ELSE - ScrollAmount(command'))
         /\ (command'.metadata = [direction |-> "down", amount |-> 5]) =>
              (calls'[Len(calls')].name = "scroll" /\ calls'[Len(calls')].amount = -5)
         /\ (command'.metadata = [direction |-> "left", amount |-> 10]) =>
              (calls'[Len(calls')].name = "hscroll" /\ calls'[Len(calls')].amount = -10)]_vars

\* a scroll down by 5 and a scroll left by 10 were dispatched and completed
C19_Witness ==
    /\ Len(calls) = 2
    /\ calls[1].name = "scroll"
    /\ calls[1].amount = -5
    /\ calls[2].name = "hscroll"
    /\ calls[2].amount = -10
    /\ Len(finished) = 2

ErrorOn(c) ==
    \/ conn_reset(c)
    \/ \E msg \in ConnMessages(arrivals + 1) :
         \/ conn_send_fails(c, msg)
         \/ (conn_message(c, msg) /\ ~WellFormed(msg))

\* C21: a handler step that meets an error ends no connection but its own,
\* leaves the listeners running and leaves the worker, the calls in flight
\* and the queue as they were; whatever errors have occurred, a running
\* server accepts the next connection and the next datagram, every open
\* connection is served its next payload, and the worker takes the next
\* queued command.
C21_ConnectionErrorsContained ==
    /\ [][\A c \in open_conns :
            ErrorOn(c) =>
              /\ open_conns \ {c} \subseteq open_conns'
              /\ running' = running
              /\ command_queue' = command_queue
              /\ <<worker_vars, in_flight, calls, cancel_requested>>' =
                   <<worker_vars, in_flight, calls, cancel_requested>>]_vars
    /\ [](running =>
            /\ accepted_conns < MaxConnections =>
                 \A t \in StreamTransports : ENABLED listener_accept(t)
            /\ arrivals < MaxConnPayloads =>
                 \A msg \in ConnMessages(arrivals + 1) :
                   /\ ENABLED udp_datagram_received(msg)
                   /\ \A c \in open_conns : ENABLED conn_message(c, msg))
    /\ [](worker_pc # "cancelled")
    /\ []((worker_pc = "get" /\ command_queue # <<>>) => ENABLED worker_get)

\* the first payload raised an error, the first TCP connection has ended, and
\* the second payload, a command sent on a TCP connection accepted later, was
\* queued and executed
C21_Witness ==
    /\ process_errors = 1
    /\ Conn("tcp", 0) \notin open_conns
    /\ \E n \in 1..MaxConnections : Conn("tcp", n) \in open_conns
    /\ accepted = <<2>>
    /\ sources = {"tcp"}
    /\ Len(finished) = 1

\* the tasks whose record_command call has returned
Returned ==
    {i \in DOMAIN recorders : recorders[i].pc = "done"}

RECURSIVE FloatSums(_, _)
\* the totals that adding the latencies of the tasks to acc, in any order,
\* can give
FloatSums(acc, tasks) ==
    IF tasks = {} THEN {acc}
    ELSE UNION {FloatSums(FloatAdd(acc, recorders[i].latency), tasks \ {i}) : i \in tasks}

\* C22: wherever the concurrent tasks are, the counters account for exactly
\* the record_command calls that have returned: commands_processed is their
\* number, total_latency the sum of their latencies added one after another
\* in some order, max_latency the greatest and min_latency the least of
\* them; commands_processed never decreases; a read of the statistics
\* changes no counter.
C22_NoLostUpdate ==
    /\ [](/\ commands_processed = Cardinality(Returned)
          /\ total_latency \in FloatSums(0, Returned)
          /\ Returned # {} =>
               /\ \E i \in Returned : max_latency = recorders[i].latency
               /\ \A i \in Returned : recorders[i].latency <= max_latency
               /\ \E i \in Returned : min_latency = recorders[i].latency
               /\ \A i \in Returned : min_latency <= recorders[i].latency)
    /\ [][commands_processed' >= commands_processed]_vars
    /\ [][stats' # stats => monitor_vars' = monitor_vars]_vars

\* three tasks have recorded the latencies 0, 1 and 3 while the statistics
\* were read in between
C22_Witness ==
    /\ Cardinality(Returned) = 3
    /\ {recorders[i].latency : i \in Returned} = {0, 1, 3}
    /\ total_latency = 4
    /\ stats # <<>>
    /\ stats[1].avg_latency_ms = <<5, 1>>

\* a / b <= c / d for rationals with positive denominators
LessEq(p, q) ==
    p[1] * q[2] <= q[1] * p[2]

\* C23: get_stats returns four zeros while nothing is recorded; afterwards
\* its average is total_latency / commands_processed in milliseconds and
\* lies between the minimum and the maximum it returns; the call changes no
\* counter.
C23_StatsConsistent ==
    [][(reader_pc = "holding" /\ reader_pc' = "idle") =>
         /\ monitor_vars' = monitor_vars
         /\ Len(stats') = 1
         /\ commands_processed = 0 =>
              /\ stats'[1].commands_per_second = <<0, 1>>
              /\ stats'[1].avg_latency_ms = <<0, 1>>
              /\ stats'[1].max_latency_ms = <<0, 1>>
              /\ stats'[1].min_latency_ms = <<0, 1>>
         /\ commands_processed > 0 =>
              /\ LessEq(stats'[1].min_latency_ms, stats'[1].avg_latency_ms)
              /\ LessEq(stats'[1].avg_latency_ms, stats'[1].max_latency_ms)]_vars

\* the last n entries of a sequence (all of it when it has fewer)
LastN(seq, n) ==
    SubSeq(seq, IF Len(seq) > n THEN Len(seq) - n + 1 ELSE 1, Len(seq))

\* the samples (x, y, t) the direct calls handed over, in arrival order
Samples ==
    [i \in DOMAIN predicted |->
        <<predicted[i].cur[1], predicted[i].cur[2], predicted[i].ts>>]

\* the i-th direct call had a predecessor with an earlier timestamp, so a
\* velocity was computed
HasVelocity(i) ==
    i >= 2 /\ predicted[i].ts - predicted[i - 1].ts > 0

RECURSIVE VelocitiesUpTo(_)
\* the velocities (dx, dy, dt) computed by the first n direct calls, in order
VelocitiesUpTo(n) ==
    IF n < 2 THEN <<>>
    ELSE IF HasVelocity(n)
    THEN Append(VelocitiesUpTo(n - 1),
                <<predicted[n].cur[1] - predicted[n - 1].cur[1],
                  predicted[n].cur[2] - predicted[n - 1].cur[2],
                  predicted[n].ts - predicted[n - 1].ts>>)
    ELSE VelocitiesUpTo(n - 1)

\* C24: after any sequence of predict_next_position calls the position
\* buffer holds at most SequenceLength samples and the velocity buffer at
\* most SequenceLength - 1; they hold the most recent samples and velocities
\* in arrival order, the oldest having been evicted.
C24_RingBuffers ==
    /\ Len(position_buffer) <= SequenceLength
    /\ Len(velocity_buffer) <= SequenceLength - 1
    /\ position_buffer = LastN(Samples, SequenceLength)
    /\ velocity_buffer = LastN(VelocitiesUpTo(Len(predicted)), SequenceLength - 1)

\* more samples and more velocities arrived than the buffers hold: both are
\* full and the first sample and the first velocity are gone
C24_Witness ==
    /\ Len(predicted) > SequenceLength
    /\ Len(VelocitiesUpTo(Len(predicted))) > SequenceLength - 1
    /\ Len(position_buffer) = SequenceLength
    /\ Len(velocity_buffer) = SequenceLength - 1
    /\ position_buffer[1] = Samples[Len(predicted) - SequenceLength + 1]
    /\ position_buffer[1] # Samples[1]

\* the rational p lies in [0, limit]
Within(p, limit) ==
    0 <= p[1] /\ p[1] <= limit * p[2]

\* the rational p is the number n / PosDen
SameAs(p, n) ==
    p[1] * PosDen = n * p[2]

\* the position given to the i-th direct call is on the screen
OnScreenInput(i) ==
    /\ 0 <= predicted[i].cur[1] /\ predicted[i].cur[1] <= ScreenWidth * PosDen
    /\ 0 <= predicted[i].cur[2] /\ predicted[i].cur[2] <= ScreenHeight * PosDen

\* C25 as stated: whatever the input position and the history, the position
\* predict_next_position returns lies in [0, W] x [0, H].
C25_AlwaysClamped ==
    \A i \in DOMAIN predicted :
        Within(predicted[i].x, ScreenWidth) /\ Within(predicted[i].y, ScreenHeight)

\* C25 amended: whenever predict_next_position extrapolates (a previous
\* sample with an earlier timestamp exists) the position it returns lies in
\* [0, W] x [0, H], whatever the input position and the history; when it
\* falls back it returns the input position as it is, on the screen or not.
C25_ExtrapolationClamped ==
    \A i \in DOMAIN predicted :
        IF HasVelocity(i)
        THEN Within(predicted[i].x, ScreenWidth) /\ Within(predicted[i].y, ScreenHeight)
        ELSE SameAs(predicted[i].x, predicted[i].cur[1])
             /\ SameAs(predicted[i].y, predicted[i].cur[2])

\* a call with a position beyond the right and bottom edges extrapolated
\* further out and returned the corner of the screen, after a call that fell
\* back and returned an off-screen position
C25_Witness ==
    \E i \in DOMAIN predicted :
        /\ HasVelocity(i)
        /\ ~OnScreenInput(i)
        /\ predicted[i].x = <<ScreenWidth, 1>>
        /\ predicted[i].y = <<ScreenHeight, 1>>
        /\ ~OnScreenInput(1)
        /\ ~Within(predicted[1].x, ScreenWidth)

\* n / d rounded to the nearest integer (d > 0; no tie occurs where it is used)
Nearest(n, d) ==
    (2 * n + d) \div (2 * d)

\* the pixel a command's position denormalizes to when the product is
\* rounded to the nearest integer and then clamped
RoundedTargetOf(cmd) ==
    <<Clamp(Nearest(cmd.position[1] * ScreenWidth, PosDen), ScreenWidth),
      Clamp(Nearest(cmd.position[2] * ScreenHeight, PosDen), ScreenHeight)>>

\* C26: denormalization rounds position * screen size to the nearest integer
\* and then clamps it to the screen: with smoothing and prediction off, the
\* call of a move or click is at that rounded, clamped pixel.
C26_RoundedDenormalization ==
    [][(/\ Dequeues
        /\ gesture_smoothing <= 0
        /\ ~enable_prediction
        /\ command'.action \in {"move", "click"})
       => calls'[Len(calls')].pos = RoundedTargetOf(command')]_vars

\* the injection calls started for the command with this id, in order
CallSeqOf(id) ==
    SelectSeq(calls, LAMBDA c : c.id = id)

\* the calls of the command with this id are next to each other in the
\* order the calls were started: no other command's call lies between them
Uninterrupted(id) ==
    \A i, j \in DOMAIN calls :
        (calls[i].id = id /\ calls[j].id = id) =>
            \A m \in i..j : calls[m].id = id

\* the ids of the commands of this action the worker holds or has finished
IdsOf(action) ==
    {finished[k].id : k \in {n \in DOMAIN finished : finished[n].action = action}}
        \cup (IF command # NoCommand /\ command.action = action THEN {command.id} ELSE {})

\* the calls of a zoom, by name and argument
ZoomCalls ==
    <<[name |-> "key_down", arg |-> "ctrl"], [name |-> "scroll", arg |-> ""],
      [name |-> "key_up", arg |-> "ctrl"]>>

\* C27: the calls of a zoom command are, in this order, key_down(ctrl), one
\* scroll at the position (x, y) handed to the action, key_up(ctrl); a zoom
\* that completed made exactly these three; no call of another command lies
\* between them.
C27_ZoomSequence ==
    /\ [](\A id \in IdsOf("zoom") :
            /\ Uninterrupted(id)
            /\ Len(CallSeqOf(id)) <= 3
            /\ \A i \in DOMAIN CallSeqOf(id) :
                 /\ CallSeqOf(id)[i].name = ZoomCalls[i].name
                 /\ CallSeqOf(id)[i].arg = ZoomCalls[i].arg)
    /\ [](\A k \in DOMAIN finished :
            (finished[k].action = "zoom" /\ finished[k].outcome = "ok") =>
                Len(CallSeqOf(finished[k].id)) = 3)
    /\ [][(Dequeues /\ command' # NoCommand /\ command'.action = "zoom") =>
            /\ Len(pending') = 2
            /\ pending'[1].pos = EmittedFor(ClampedTargetOf(command'))]_vars
    /\ [][(~Dequeues /\ calls' # calls /\ command.action = "zoom") =>
            calls' = Append(calls, Head(pending) @@ [id |-> command.id])]_vars

\* a move and a zoom were carried out one after the other: four calls, three
\* of them the zoom's
C27_Witness ==
    /\ Len(finished) = 2
    /\ Len(calls) = 4
    /\ \E k \in DOMAIN finished :
         /\ finished[k].action = "zoom"
         /\ finished[k].outcome = "ok"
         /\ Len(CallSeqOf(finished[k].id)) = 3
         /\ CallSeqOf(finished[k].id)[2].pos # <<>>
    /\ \E k \in DOMAIN finished : finished[k].action = "move"

\* the calls of a translate, by name, in order
TranslateCalls ==
    <<"copy_selection_to_clipboard", "read_clipboard", "translate",
      "copy_to_clipboard", "paste_from_clipboard">>

\* C28: the calls of a translate command are, in this order, the copy of
\* the selection, the clipboard read, translate, the clipboard write and
\* paste, with no call of another command between them; the clipboard read
\* is started by the step that ends the settle delay, which follows the
\* return of the copy; while the worker sleeps no call is started; a
\* clipboard read that returns the empty text ends the command with no
\* further call, and a translate that completed made two calls or all five.
C28_TranslateSequence ==
    /\ [](\A id \in IdsOf("translate") :
            /\ Uninterrupted(id)
            /\ Len(CallSeqOf(id)) <= 5
            /\ \A i \in DOMAIN CallSeqOf(id) : CallSeqOf(id)[i].name = TranslateCalls[i])
    /\ [](\A k \in DOMAIN finished :
            (finished[k].action = "translate" /\ finished[k].outcome = "ok") =>
                Len(CallSeqOf(finished[k].id)) \in {2, 5})
    /\ []((worker_pc = "sleep") =>
            /\ command.action = "translate"
            /\ in_flight = <<>>
            /\ Len(CallSeqOf(command.id)) = 1)
    /\ [][(worker_pc = "sleep" /\ calls' # calls) =>
            /\ calls' = Append(calls, Call("read_clipboard", <<>>, "", 0) @@ [id |-> command.id])
            /\ command' = command]_vars
    /\ [][(calls' # calls /\ calls'[Len(calls')].name = "read_clipboard") =>
            worker_pc = "sleep"]_vars
    /\ [][\A i \in DOMAIN in_flight :
            (in_flight[i].name = "read_clipboard" /\ call_returns(i, "")) =>
                /\ calls' = calls
                /\ pending' = <<>>
                /\ worker_pc' = "finally"
                /\ outcome' = "ok"]_vars

\* two translate commands completed: the first found the clipboard empty and
\* stopped after the read, the second went through all five calls
C28_Witness ==
    /\ Len(finished) = 2
    /\ finished[1].action = "translate" /\ finished[1].outcome = "ok"
    /\ finished[2].action = "translate" /\ finished[2].outcome = "ok"
    /\ Len(CallSeqOf(finished[1].id)) = 2
    /\ Len(CallSeqOf(finished[2].id)) = 5
    /\ calls[7].name = "paste_from_clipboard"

\* C29: the step that dispatches a move_relative command starts exactly one
\* call, move_relative(dx, dy) with the deltas of the metadata (0 where none
\* is given), unclamped, and leaves nothing further to issue; it leaves
\* last_position, the predictor's buffers and is_dragging as they were.
C29_MoveRelativeBypass ==
    /\ [][(Dequeues /\ command'.action = "move_relative") =>
            /\ calls' = Append(calls,
                   [name |-> "move_relative", pos |-> <<>>, arg |-> "", amount |-> 0,
                    id |-> command'.id,
                    dx |-> IF "dx" \in DOMAIN command'.metadata
                           THEN command'.metadata.dx ELSE 0,
                    dy |-> IF "dy" \in DOMAIN command'.metadata
                           THEN command'.metadata.dy ELSE 0])
            /\ pending' = <<>>
            /\ exec_vars' = exec_vars]_vars
    /\ [](\A k \in DOMAIN finished :
            finished[k].action = "move_relative" => Len(CallSeqOf(finished[k].id)) = 1)

\* with smoothing and prediction on, a move set last_position and put a
\* sample in the predictor; the move_relative by (2500, -40) that followed
\* sent its deltas unclamped and left both as they were
C29_Witness ==
    /\ gesture_smoothing > 0
    /\ enable_prediction
    /\ Len(finished) = 2
    /\ finished[1].action = "move"
    /\ finished[2].action = "move_relative"
    /\ Len(calls) = 2
    /\ calls[2].dx = 2500 /\ calls[2].dy = -40
    /\ last_position = calls[1].pos
    /\ last_position # <<0, 0>>
    /\ Len(position_buffer) = 1

\* C30: the predictor's position and velocity buffers change only in the
\* step that dispatches a move command while prediction is enabled, and
\* that step appends the command's sample; every other step, the dispatch
\* of any other action and of a move with prediction disabled included,
\* leaves both buffers as they were.
C30_PredictionMoveOnly ==
    /\ [][(position_buffer' # position_buffer \/ velocity_buffer' # velocity_buffer) =>
            /\ Dequeues
            /\ command'.action = "move"
            /\ enable_prediction]_vars
    /\ [][(Dequeues /\ command'.action = "move" /\ enable_prediction) =>
            position_buffer'[Len(position_buffer')] =
                <<command'.position[1] * ScreenWidth, command'.position[2] * ScreenHeight,
                  command'.timestamp>>]_vars

\* with prediction enabled a move put its sample in the predictor and the
\* command of another action dispatched after it left the sample alone
C30_Witness ==
    /\ enable_prediction
    /\ Len(finished) = 2
    /\ finished[1].action = "move"
    /\ finished[2].action \notin {"move", "move_relative"}
    /\ Len(calls) = 2
    /\ Len(position_buffer) = 1

\* the step appends exactly one call, of this name, for the command taken
OneCallNamed(name) ==
    /\ Len(calls') = Len(calls) + 1
    /\ SubSeq(calls', 1, Len(calls)) = calls
    /\ calls'[Len(calls')].name = name
    /\ calls'[Len(calls')].id = command'.id

\* C31: is_dragging changes only in the step that dispatches a drag_start
\* while idle, which starts one mouse_down call, and in the step that
\* dispatches a drag_end while dragging, which starts one mouse_up call; no
\* other action, no listener step and no configuration update changes it.
C31_DragTransitions ==
    [][(is_dragging' # is_dragging) =>
         /\ Dequeues
         /\ \/ ~is_dragging /\ command'.action = "drag_start" /\ OneCallNamed("mouse_down")
            \/ is_dragging /\ command'.action = "drag_end" /\ OneCallNamed("mouse_up")]_vars

RECURSIVE ButtonHeld(_)
\* the injection surface holds a button after the first k finished commands:
\* the last mouse_down or mouse_up call that returned was a mouse_down
ButtonHeld(k) ==
    IF k = 0 THEN FALSE
    ELSE IF finished[k].outcome = "ok" /\ CallsOf(finished[k].id) = 1
            /\ finished[k].action \in {"drag_start", "drag_end"}
    THEN finished[k].action = "drag_start"
    ELSE ButtonHeld(k - 1)

\* C32: whenever the worker is between two commands, is_dragging is TRUE
\* exactly when the last mouse_down or mouse_up call that completed was a
\* mouse_down, also after a mouse_down or mouse_up call that raised.
C32_DragStateMatchesSurface ==
    worker_pc = "get" => (is_dragging = ButtonHeld(Len(finished)))

\* the place in calls of the last mouse_down call started before the i-th call
LastPressBefore(i) ==
    CHOOSE j \in 1..(i - 1) :
        /\ calls[j].name = "mouse_down"
        /\ \A m \in (j + 1)..(i - 1) : calls[m].name # "mouse_down"

\* C33: every mouse_up call releases the button of the mouse_down call that
\* opened the drag, whatever button the drag_end command names.
C33_ReleasesPressedButton ==
    \A i \in DOMAIN calls :
        calls[i].name = "mouse_up" =>
            /\ \E j \in 1..(i - 1) : calls[j].name = "mouse_down"
            /\ calls[i].arg = calls[LastPressBefore(i)].arg

\* C34: whenever the worker is between two commands, every key_down(ctrl)
\* call of a zoom has been followed by a key_up(ctrl) call of the same
\* command, also when a call of the zoom raised: ctrl is not left held when
\* the next command is dispatched.
C34_CtrlReleased ==
    worker_pc = "get" =>
        \A i \in DOMAIN calls :
            calls[i].name = "key_down" =>
                \E j \in DOMAIN calls :
                    /\ j > i
                    /\ calls[j].name = "key_up"
                    /\ calls[j].arg = calls[i].arg
                    /\ calls[j].id = calls[i].id

\* C35: the step that dispatches a drag_start while dragging or a drag_end
\* while idle starts no call and leaves is_dragging and last_position as
\* they were, whatever the smoothing factor.
C35_DragNoOpsLeaveState ==
    [][(/\ Dequeues
        /\ \/ command'.action = "drag_start" /\ is_dragging
           \/ command'.action = "drag_end" /\ ~is_dragging)
       => /\ calls' = calls
          /\ is_dragging' = is_dragging
          /\ last_position' = last_position]_vars

\* the action strings _execute_action has a branch for
RecognizedActions ==
    {"click", "double_click", "drag_start", "drag_end", "scroll", "zoom", "move",
     "key_press", "key_combo", "type_text", "move_relative", "wave", "copy",
     "paste", "translate", "volume_control"}

\* C36: a well-formed command whose action is no recognized action is put
\* on the queue; the step that dispatches it starts no call, raises no
\* error and leaves is_dragging and the predictor's buffers as they were;
\* the command is finished without error, its latency recorded and counted,
\* and the worker goes back to take the next command.
C36_UnknownActionIgnored ==
    /\ [][\A msg \in UnknownMessages(arrivals + 1) :
            (msg.payload.action \notin RecognizedActions /\ udp_datagram_received(msg)) =>
                /\ Len(command_queue') = Len(command_queue) + 1
                /\ command_queue'[Len(command_queue')].id = msg.id
                /\ command_queue'[Len(command_queue')].action = msg.payload.action]_vars
    /\ [][(Dequeues /\ command'.action \notin RecognizedActions) =>
            /\ calls' = calls
            /\ in_flight' = in_flight
            /\ pending' = <<>>
            /\ outcome' = "ok"
            /\ worker_pc' = "finally"
            /\ is_dragging' = is_dragging
            /\ position_buffer' = position_buffer
            /\ velocity_buffer' = velocity_buffer]_vars
    /\ [][(worker_pc = "finally" /\ worker_pc' # "finally"
           /\ command.action \notin RecognizedActions) =>
            /\ worker_pc' = "get"
            /\ commands_processed' = commands_processed + 1
            /\ total_latency' > total_latency
            /\ Len(finished') = Len(finished) + 1
            /\ finished'[Len(finished')].id = command.id
            /\ finished'[Len(finished')].outcome = "ok"]_vars

\* between a drag_start and a move a command with the action "MOVE" was
\* processed: two calls, none of them for "MOVE", all three commands
\* counted, the drag still open, the move's sample in the predictor
C36_Witness ==
    /\ Len(finished) = 3
    /\ finished[1].action = "drag_start"
    /\ finished[2].action = "MOVE"
    /\ finished[2].outcome = "ok"
    /\ finished[3].action = "move"
    /\ CallsOf(finished[2].id) = 0
    /\ Len(calls) = 2
    /\ commands_processed = 3
    /\ is_dragging
    /\ Len(position_buffer) = 1

\* C37: with a secret token configured a command is put on the queue only
\* by the handler of a connection that passed the token check, which only
\* WebSocket connections can: no step of the UDP endpoint or of a TCP
\* handler enqueues a command.
C37_OnlyAuthorizedEnqueued ==
    [][(accepted' # accepted) =>
         \E msg \in AuthMessages(arrivals + 1) :
            \E c \in open_conns : c.transport = "ws" /\ conn_message(c, msg)]_vars

\* C38: in every reachable state the configured smoothing factor lies in
\* [0, 1), also after live configuration updates interleaved with command
\* processing, so no command is smoothed with a factor of 1 or more.
C38_SmoothingInRange ==
    0 <= gesture_smoothing /\ gesture_smoothing < SmoothDen

\* the runs of stop() invoked by main's finally block
StopsByMain ==
    {i \in DOMAIN stop_tasks : stop_tasks[i].by = "main"}

\* stop() has been invoked (and has cleared running) on a server whose
\* listeners and dashboard have started and whose start() is still awaited
StoppedWhileStarted ==
    ~running /\ starting = {} /\ main_pc = "start"

\* C39: after stop() has been invoked on a started server, the logger's
\* next wake-up (at most one logging period later) sees running cleared and
\* ends the logger without reading the statistics again, and start() then
\* returns, with every gathered task complete; main's finally block runs
\* stop() at most once, and only while running is still set, that is, when
\* no run of stop() has begun.
C39_ShutdownCompletes ==
    /\ [][(logger_pc = "sleep" /\ ~running /\ <<logger_pc, stats>>' # <<logger_pc, stats>>)
            => (logger_pc' = "done" /\ stats' = stats)]_vars
    /\ StoppedWhileStarted ~> (main_pc \in {"returned", "done"})
    /\ [](main_pc = "returned" => (logger_pc = "done" /\ starting = {} /\ ~running))
    /\ [][(main_pc \in {"returned", "raised"} /\ main_pc' # main_pc)
            => ((StopsByMain' # StopsByMain) <=> running)]_vars
    /\ [](Cardinality(StopsByMain) <= 1)
    /\ [][\A i \in DOMAIN stop_tasks' \ DOMAIN stop_tasks :
             stop_tasks'[i].by = "main"
               => \A j \in DOMAIN stop_tasks : stop_tasks[j].pc = "created"]_vars

\* a signal's stop() ran to its end on the started server after the logger
\* had logged the statistics of a processed command; the logger ended,
\* start() returned and main ended without running stop() itself
C39_Witness ==
    /\ main_pc = "done"
    /\ logger_pc = "done"
    /\ starting = {}
    /\ stats # <<>>
    /\ commands_processed = 1
    /\ StopsByMain = {}
    /\ \E i \in DOMAIN stop_tasks : stop_tasks[i].pc = "done"

====
